---- MODULE Spec2Model ----
(***************************************************************************)
(* A model of the data pipeline of the dashboard: the column normalizers   *)
(* and field cleaners of utils/data_processor.py, the student/municipality *)
(* join, the coverage metrics and the alignment and geographic pages.      *)
(*                                                                         *)
(* A DataFrame is [columns |-> sequence of column names,                   *)
(*                 rows    |-> sequence of rows, each a sequence of cells] *)
(* so that a column is addressed by position and by name, as in pandas,    *)
(* and two columns may carry the same name.                                *)
(* A cell is a tagged value: a string (a sequence of one-character         *)
(* strings), a number (a normalised fraction p/q) or the missing value NaN.*)
(***************************************************************************)
EXTENDS Integers, Sequences, FiniteSets, TLC

VARIABLES
    pc,              \* position in the render cycle / in the function applied
    data,            \* app.py:56   raw tables delivered by the loader
    processed_data,  \* app.py:59   cleaned tables
    df_clean,        \* data_processor.py:114/155/195/233  tables right after the column selection
    df,              \* the table a helper (_add_region_column) is applied to
    metrics,         \* data_processor.py:458  result of calculate_coverage_metrics
    view,            \* what the pages compute and display
    current_year,    \* data_processor.py:305  the year of pd.to_datetime('today')
    response,        \* data_loader.py:21  what the remote service answers to the request
    requests,        \* data_loader.py:21  number of calls of requests.get
    st,              \* the messages shown to the user (st.error, st.warning)
    returned,        \* the value returned by the function a helper specification applies
    cache,           \* data_loader.py:12, ibge_data_loader.py:17  the entries of st.cache_data
    now,             \* the time, in seconds
    args,            \* the cached function last called, with its arguments
    urls,            \* ibge_data_loader.py:34  the endpoints requested, in order
    environ,         \* config.py:12  the environment after load_dotenv()
    GOOGLE_SHEETS_CONFIG,  \* config.py:20  the configuration the import produces
    raised           \* config.py:14  the exception the import raises

vars == <<pc, data, processed_data, df_clean, df, metrics, view,
          current_year, response, requests, st, returned, cache, now, args, urls,
          environ, GOOGLE_SHEETS_CONFIG, raised>>

\* the variables of the import of config.py
startup == <<environ, GOOGLE_SHEETS_CONFIG, raised>>

\* the variables of the result cache and of the requests made
cachevars == <<cache, now, args, urls>>

\* the variables the render cycle of app.py leaves alone
aux == <<current_year, response, requests, st, returned, cache, now, args, urls,
         environ, GOOGLE_SHEETS_CONFIG, raised>>

(***************************************************************************)
(* Bounds of the model.                                                    *)
(***************************************************************************)
MaxMunicipios == 3

MaxUFLen == 3

(***************************************************************************)
(* Numbers: python floats are modelled as exact fractions p/q, q > 0,      *)
(* in lowest terms, so that equality of values is equality of records.     *)
(***************************************************************************)
Abs(n) == IF n < 0 THEN -n ELSE n

RECURSIVE GCD(_, _)
GCD(a, b) == IF b = 0 THEN a ELSE GCD(b, a % b)

NaN == [k |-> "nan", s |-> <<>>, p |-> 0, q |-> 1]

Str(s) == [k |-> "str", s |-> s, p |-> 0, q |-> 1]

Num(p, q) ==
    LET g == GCD(Abs(p), q)
    IN [k |-> "num", s |-> <<>>, p |-> p \div g, q |-> q \div g]

Int2Num(n) == Num(n, 1)

isna(v) == v.k = "nan"

notna(v) == v.k # "nan"

NumAdd(a, b) == Num(a.p * b.q + b.p * a.q, a.q * b.q)

NumLE(a, b) == a.p * b.q <= b.p * a.q

NumLT(a, b) == a.p * b.q < b.p * a.q

\* a faulty variant of Percent: the division by the count n is left out
Percent_NoDivide(a, n) == Num(a * 100, 1)

\* a / n * 100 for a count a and a positive count n
Percent(a, n) == Num(a * 100, n)

\* a faulty variant of PyEq: two missing values compare equal
PyEq_NaNEqual(a, b) == a = b

\* python's == on two cells of a Series: NaN is equal to nothing, itself included
PyEq(a, b) == notna(a) /\ notna(b) /\ a = b

(***************************************************************************)
(* Strings: sequences of one-character strings.                            *)
(***************************************************************************)
Lowers == <<"a","b","c","d","e","f","g","h","i","j","k","l","m",
            "n","o","p","q","r","s","t","u","v","w","x","y","z">>

Uppers == <<"A","B","C","D","E","F","G","H","I","J","K","L","M",
            "N","O","P","Q","R","S","T","U","V","W","X","Y","Z">>

Digits == <<"0","1","2","3","4","5","6","7","8","9">>

Range(f) == {f[i] : i \in DOMAIN f}

IndexOf(seq, c) == CHOOSE i \in DOMAIN seq : seq[i] = c

IsDigit(c) == c \in Range(Digits)

DigitVal(c) == IndexOf(Digits, c) - 1

IsSpace(c) == c = " "

UpperChar(c) == IF c \in Range(Lowers) THEN Uppers[IndexOf(Lowers, c)] ELSE c

LowerChar(c) == IF c \in Range(Uppers) THEN Lowers[IndexOf(Uppers, c)] ELSE c

\* str.upper()
upper(s) == [i \in DOMAIN s |-> UpperChar(s[i])]

\* str.lower()
lower(s) == [i \in DOMAIN s |-> LowerChar(s[i])]

RECURSIVE lstrip(_)
lstrip(s) == IF s # <<>> /\ IsSpace(Head(s)) THEN lstrip(Tail(s)) ELSE s

RECURSIVE rstrip(_)
rstrip(s) ==
    IF s # <<>> /\ IsSpace(s[Len(s)]) THEN rstrip(SubSeq(s, 1, Len(s) - 1)) ELSE s

\* str.strip()
strip(s) == rstrip(lstrip(s))

Keep(s, Test(_)) == SelectSeq(s, Test)

\* str.replace(',', '.')
CommaToPeriod(s) == [i \in DOMAIN s |-> IF s[i] = "," THEN "." ELSE s[i]]

Count(s, c) == Cardinality({i \in DOMAIN s : s[i] = c})

RECURSIVE Pow10(_)
Pow10(n) == IF n = 0 THEN 1 ELSE 10 * Pow10(n - 1)

RECURSIVE DigitsVal(_)
DigitsVal(s) ==
    IF s = <<>> THEN 0 ELSE 10 * DigitsVal(SubSeq(s, 1, Len(s) - 1)) + DigitVal(s[Len(s)])

(***************************************************************************)
(* pd.to_numeric(series, errors='coerce') on one string made of digits,    *)
(* periods and minus signs: an optional leading minus, digits with at most *)
(* one period and at least one digit parse; anything else is NaN.          *)
(***************************************************************************)
to_numeric(s) ==
    LET neg  == s # <<>> /\ Head(s) = "-"
        body == IF neg THEN Tail(s) ELSE s
        ds   == Keep(body, IsDigit)
        dot  == IF Count(body, ".") = 1 THEN IndexOf(body, ".") ELSE Len(body) + 1
        frac == Len(body) + 1 - dot - (IF Count(body, ".") = 1 THEN 1 ELSE 0)
    IN  IF /\ \A i \in DOMAIN body : IsDigit(body[i]) \/ body[i] = "."
           /\ Count(body, ".") <= 1
           /\ ds # <<>>
        THEN Num((IF neg THEN -1 ELSE 1) * DigitsVal(ds), Pow10(frac))
        ELSE NaN

RECURSIVE NatStr(_)
NatStr(n) == IF n < 10 THEN <<Digits[n + 1]>> ELSE NatStr(n \div 10) \o <<Digits[(n % 10) + 1]>>

\* the least k such that q divides 10^k, for the denominator q of a parsed decimal
RECURSIVE DecimalPlaces(_, _)
DecimalPlaces(q, k) == IF Pow10(k) % q = 0 THEN k ELSE DecimalPlaces(q, k + 1)

RECURSIVE Zeros(_)
Zeros(n) == IF n <= 0 THEN <<>> ELSE <<"0">> \o Zeros(n - 1)

\* str(x) of a float x = p/q that is no whole number and is below 10^16 in size:
\* positional notation from 0.0001 on, scientific notation (1e-05, 1.5e-05) below
FloatStr(v) ==
    LET k      == DecimalPlaces(v.q, 0)
        n      == (Abs(v.p) * Pow10(k)) \div v.q
        digits == NatStr(n)
        sign   == IF v.p < 0 THEN <<"-">> ELSE <<>>
        frac   == NatStr(n % Pow10(k))
        expo   == NatStr(k + 1 - Len(digits))
    IN IF n * Pow10(4) >= Pow10(k)
       THEN sign \o NatStr(n \div Pow10(k)) \o <<".">> \o Zeros(k - Len(frac)) \o frac
       ELSE sign \o <<Head(digits)>>
                 \o (IF Len(digits) > 1 THEN <<".">> \o Tail(digits) ELSE <<>>)
                 \o <<"e", "-">> \o Zeros(2 - Len(expo)) \o expo

\* series.fillna('').astype(str) on one cell: the text of a string, '' for NaN, the
\* text of a number (a whole number is written without or with a final .0, according
\* to the dtype of its column; both texts parse to the same number)
CellStr(v) ==
    CASE v.k = "str" -> v.s
      [] v.k = "nan" -> <<>>
      [] v.q = 1     -> (IF v.p < 0 THEN <<"-">> ELSE <<>>) \o NatStr(Abs(v.p))
      [] OTHER       -> FloatStr(v)

(***************************************************************************)
(* DataFrames.                                                             *)
(***************************************************************************)
EmptyDF == [columns |-> <<>>, rows |-> <<>>]

\* DataFrame.empty
empty(t) == t.columns = <<>> \/ t.rows = <<>>

Positions(t, name) == {j \in DOMAIN t.columns : t.columns[j] = name}

HasCol(t, name) == Positions(t, name) # {}

IsDup(t, name) == Cardinality(Positions(t, name)) > 1

\* the position of a column whose name occurs once
Pos(t, name) == CHOOSE j \in DOMAIN t.columns : t.columns[j] = name

\* the cell of row i in the column called name
Cell(t, i, name) == t.rows[i][Pos(t, name)]

\* df[name] = f(df[name]) cell by cell, on every column of that name
MapCol(t, name, F(_)) ==
    [t EXCEPT !.rows = [i \in DOMAIN t.rows |->
        [j \in DOMAIN t.columns |->
            IF t.columns[j] = name THEN F(t.rows[i][j]) ELSE t.rows[i][j]]]]

\* df[name] = value: every column of that name is overwritten, a new one is appended
SetCol(t, name, value) ==
    IF HasCol(t, name)
    THEN [t EXCEPT !.rows = [i \in DOMAIN t.rows |->
            [j \in DOMAIN t.columns |->
                IF t.columns[j] = name THEN value ELSE t.rows[i][j]]]]
    ELSE [columns |-> Append(t.columns, name),
          rows    |-> [i \in DOMAIN t.rows |-> Append(t.rows[i], value)]]

\* df[name] = series, the series given as a function of the row number
SetColBy(t, name, F(_)) ==
    IF HasCol(t, name)
    THEN [t EXCEPT !.rows = [i \in DOMAIN t.rows |->
            [j \in DOMAIN t.columns |->
                IF t.columns[j] = name THEN F(i) ELSE t.rows[i][j]]]]
    ELSE [columns |-> Append(t.columns, name),
          rows    |-> [i \in DOMAIN t.rows |-> Append(t.rows[i], F(i))]]

RECURSIVE SumSeq(_)
SumSeq(s) == IF s = <<>> THEN Int2Num(0) ELSE NumAdd(Head(s), SumSeq(Tail(s)))

(***************************************************************************)
(* The column normalizer: the rename loop and the column selection that    *)
(* open every clean_*_data.  columns_map is the dict in its order, as a    *)
(* sequence of <<0-based index, new name>>; zero_fields are the fields     *)
(* that are filled with 0, not with '', when the raw table is too narrow.  *)
(***************************************************************************)
\* df_clean.rename(columns={old_name: new_name}): by name, every column called old_name
rename(t, old_name, new_name) ==
    [t EXCEPT !.columns = [j \in DOMAIN t.columns |->
        IF t.columns[j] = old_name THEN new_name ELSE t.columns[j]]]

RECURSIVE RenameLoop(_, _, _, _)
RenameLoop(raw, t, columns_map, zero_fields) ==
    IF columns_map = <<>> THEN t
    ELSE LET idx      == Head(columns_map)[1]
             new_name == Head(columns_map)[2]
             step     == IF idx < Len(raw.columns)
                         THEN rename(t, raw.columns[idx + 1], new_name)
                         ELSE SetCol(t, new_name, IF new_name \in zero_fields
                                                    THEN Int2Num(0) ELSE Str(<<>>))
         IN RenameLoop(raw, step, Tail(columns_map), zero_fields)

required_cols(columns_map) == [n \in DOMAIN columns_map |-> columns_map[n][2]]

\* the positions df_clean[required_cols] picks: for each name in turn, every column of that name
RECURSIVE PickPositions(_, _)
PickPositions(t, names) ==
    IF names = <<>> THEN <<>>
    ELSE SelectSeq([j \in DOMAIN t.columns |-> j], LAMBDA j : t.columns[j] = Head(names))
         \o PickPositions(t, Tail(names))

\* df_clean[required_cols] raises KeyError when a name is no column
KeyError(t, names) == \E n \in DOMAIN names : ~HasCol(t, names[n])

SelectCols(t, names) ==
    LET pick == PickPositions(t, names)
    IN [columns |-> [n \in DOMAIN pick |-> t.columns[pick[n]]],
        rows    |-> [i \in DOMAIN t.rows |-> [n \in DOMAIN pick |-> t.rows[i][pick[n]]]]]

\* the table after the selection, and whether the selection raised
NormalizeColumns(raw, columns_map, zero_fields) ==
    LET renamed == RenameLoop(raw, raw, columns_map, zero_fields)
        names   == required_cols(columns_map)
    IN IF KeyError(renamed, names)
       THEN [error |-> TRUE, table |-> EmptyDF]
       ELSE [error |-> FALSE, table |-> SelectCols(renamed, names)]

(***************************************************************************)
(* The field cleaners.  A column whose name occurs twice makes df[col] a   *)
(* DataFrame, on which .str raises: each cleaner then takes its except     *)
(* branch.                                                                 *)
(***************************************************************************)
IsCoordChar(c) == IsDigit(c) \/ c = "." \/ c = "-"

IsNumericChar(c) == IsDigit(c) \/ c = "." \/ c = ","

\* a faulty variant of CleanCoordinate: an unparseable value falls back to 0, as in the numeric cleaner
CleanCoordinate_Zero(v) ==
    LET parsed == to_numeric(Keep(CommaToPeriod(CellStr(v)), IsCoordChar))
    IN IF isna(parsed) THEN Int2Num(0) ELSE parsed

\* one cell through lines 322-325: comma to period, strip [^\d.-], to_numeric
CleanCoordinate(v) == to_numeric(Keep(CommaToPeriod(CellStr(v)), IsCoordChar))

_clean_coordinates(t, lat_col, lng_col) ==
    IF t.rows = <<>> THEN t
    ELSE IF IsDup(t, lat_col) \/ IsDup(t, lng_col)
    THEN MapCol(MapCol(t, lat_col, LAMBDA v : NaN), lng_col, LAMBDA v : NaN)
    ELSE MapCol(MapCol(t, lat_col, CleanCoordinate), lng_col, CleanCoordinate)

\* a faulty variant of CleanNumeric: the value that does not parse is left missing
CleanNumeric_NoFillna(v) ==
    LET stripped == CommaToPeriod(Keep(CellStr(v), IsNumericChar))
    IN to_numeric(IF stripped = <<>> THEN <<"0">> ELSE stripped)

\* one cell through lines 352-360: strip [^\d.,], comma to period, '' to '0',
\* to_numeric, fillna(0)
CleanNumeric(v) ==
    LET stripped == CommaToPeriod(Keep(CellStr(v), IsNumericChar))
        series   == IF stripped = <<>> THEN <<"0">> ELSE stripped
        parsed   == to_numeric(series)
    IN IF isna(parsed) THEN Int2Num(0) ELSE parsed

numeric_cols == <<"DISTANCIA_KM", "TOTAL_ALUNOS">>

RECURSIVE CleanNumericLoop(_, _)
CleanNumericLoop(t, cols) ==
    IF cols = <<>> THEN t
    ELSE LET col  == Head(cols)
             step == IF ~HasCol(t, col) \/ t.rows = <<>> THEN t
                     ELSE IF IsDup(t, col) THEN MapCol(t, col, LAMBDA v : Int2Num(0))
                     ELSE MapCol(t, col, CleanNumeric)
         IN CleanNumericLoop(step, Tail(cols))

_clean_numeric_columns(t) == CleanNumericLoop(t, numeric_cols)

\* one cell through lines 377-380: strip, 'nan' to '', '' to NaN
\* a faulty variant of CleanText: the literal 'nan' is kept
CleanText_KeepNan(v) ==
    IF strip(CellStr(v)) = <<>> THEN NaN ELSE Str(strip(CellStr(v)))

CleanText(v) ==
    LET stripped == strip(CellStr(v))
        series   == IF stripped = <<"n", "a", "n">> THEN <<>> ELSE stripped
    IN IF series = <<>> THEN NaN ELSE Str(series)

\* select_dtypes(include=['object']): a column that holds strings
IsObjectCol(t, j) == \E i \in DOMAIN t.rows : t.rows[i][j].k = "str"

\* the loop stops, with what it has cleaned so far, at the first text column
\* whose name occurs twice (the exception is swallowed)
_clean_text_columns(t) ==
    LET text_cols == {j \in DOMAIN t.columns : IsObjectCol(t, j)}
        raising   == {j \in text_cols : IsDup(t, t.columns[j])}
        cleaned   == {j \in text_cols : \A d \in raising : j < d}
    IN [t EXCEPT !.rows = [i \in DOMAIN t.rows |->
          [j \in DOMAIN t.columns |->
              IF j \in cleaned THEN CleanText(t.rows[i][j]) ELSE t.rows[i][j]]]]

(***************************************************************************)
(* The region classifier.  A region name is a one-token string.            *)
(***************************************************************************)
NaoIdentificado == Str(<<"Nao identificado">>)

regions == <<
    [region |-> "Norte",
     states |-> {<<"A","C">>, <<"A","P">>, <<"A","M">>, <<"P","A">>, <<"R","O">>,
                 <<"R","R">>, <<"T","O">>}],
    [region |-> "Nordeste",
     states |-> {<<"A","L">>, <<"B","A">>, <<"C","E">>, <<"M","A">>, <<"P","B">>,
                 <<"P","E">>, <<"P","I">>, <<"R","N">>, <<"S","E">>}],
    [region |-> "Centro-Oeste",
     states |-> {<<"D","F">>, <<"G","O">>, <<"M","T">>, <<"M","S">>}],
    [region |-> "Sudeste",
     states |-> {<<"E","S">>, <<"M","G">>, <<"R","J">>, <<"S","P">>}],
    [region |-> "Sul",
     states |-> {<<"P","R">>, <<"R","S">>, <<"S","C">>}] >>

\* a faulty variant of get_region: the code is uppercased but not trimmed
get_region_NoStrip(uf) ==
    IF isna(uf) \/ uf = Str(<<>>) \/ lower(CellStr(uf)) = <<"n", "a", "n">>
    THEN NaoIdentificado
    ELSE LET uf_clean == upper(CellStr(uf))
             hits     == {n \in DOMAIN regions : uf_clean \in regions[n].states}
         IN IF hits = {} THEN NaoIdentificado
            ELSE Str(<<regions[CHOOSE n \in hits : \A m \in hits : n <= m].region>>)

get_region(uf) ==
    IF isna(uf) \/ uf = Str(<<>>) \/ lower(CellStr(uf)) = <<"n", "a", "n">>
    THEN NaoIdentificado
    ELSE LET uf_clean == strip(upper(CellStr(uf)))
             hits     == {n \in DOMAIN regions : uf_clean \in regions[n].states}
         IN IF hits = {} THEN NaoIdentificado
            ELSE Str(<<regions[CHOOSE n \in hits : \A m \in hits : n <= m].region>>)

\* with two columns called UF the apply and the assignment raise, and REGIAO is the sentinel
_add_region_column(t) ==
    IF ~HasCol(t, "UF") \/ t.rows = <<>> THEN t
    ELSE IF IsDup(t, "UF") THEN SetCol(t, "REGIAO", NaoIdentificado)
    ELSE SetColBy(t, "REGIAO", LAMBDA i : get_region(Cell(t, i, "UF")))

(***************************************************************************)
(* The entity cleaners.  Each returns [error, df_clean, result]: whether   *)
(* the column selection raised KeyError, the table right after the         *)
(* selection, and the table returned.                                      *)
(***************************************************************************)
polos_columns_map == <<
    <<0, "UNIDADE">>, <<1, "RAZAO">>, <<3, "ENDERECO">>, <<4, "CIDADE">>,
    <<5, "UF">>, <<6, "CEP">>, <<12, "lat">>, <<13, "long">> >>

municipios_columns_map == <<
    <<0, "MUNICIPIO_IBGE">>, <<1, "UF">>, <<3, "LAT">>, <<4, "LNG">>,
    <<5, "POLO_ENDERECO">>, <<9, "UNIDADE_POLO">>, <<10, "DISTANCIA_KM">>,
    <<14, "TOTAL_ALUNOS">> >>

alunos_columns_map == <<
    <<2, "CPF">>, <<3, "CEP">>, <<4, "CIDADE">>, <<5, "UF">>, <<10, "CURSO">>,
    <<11, "POLO">>, <<12, "POLO_MAIS_PROXIMO">> >>

\* the fields clean_municipios_data fills with 0 (line 150-151)
municipios_zero_fields == {"LAT", "LNG", "DISTANCIA_KM", "TOTAL_ALUNOS"}

Returned(t) == [error |-> FALSE, df_clean |-> t, result |-> t]

clean_polos_data(raw) ==
    IF empty(raw) THEN Returned(raw)
    ELSE LET n == NormalizeColumns(raw, polos_columns_map, {})
         IN [error    |-> n.error,
             df_clean |-> n.table,
             result   |-> IF n.error THEN EmptyDF
                          ELSE _add_region_column(_clean_text_columns(
                                   _clean_coordinates(n.table, "lat", "long")))]

clean_municipios_data(raw) ==
    IF empty(raw) THEN Returned(raw)
    ELSE LET n == NormalizeColumns(raw, municipios_columns_map, municipios_zero_fields)
         IN [error    |-> n.error,
             df_clean |-> n.table,
             result   |-> IF n.error THEN EmptyDF
                          ELSE _add_region_column(_clean_numeric_columns(
                                   _clean_coordinates(n.table, "LAT", "LNG")))]

clean_alunos_data(raw) ==
    IF empty(raw) THEN Returned(raw)
    ELSE LET n == NormalizeColumns(raw, alunos_columns_map, {})
         IN [error    |-> n.error,
             df_clean |-> n.table,
             result   |-> IF n.error THEN EmptyDF
                          ELSE _add_region_column(_clean_text_columns(n.table))]

(***************************************************************************)
(* The sales cleaner.  A payment date is a cell of kind "date" whose p is  *)
(* year * 10000 + month * 100 + day.  The labels of the two vocabularies   *)
(* are one-token strings, written without accents.                         *)
(***************************************************************************)
vendas_columns_map == <<
    <<2, "CPF">>, <<3, "ALUNO">>, <<4, "NIVEL">>, <<5, "CURSO">>, <<9, "DT_PAGTO">>,
    <<13, "TIPO_PARCERIA">> >>

modalidades_validas ==
    {<<"Aperfeicoamento">>, <<"Curso Tecnico">>, <<"Disciplina Isolada">>,
     <<"Disciplinas Eletivas">>, <<"Ensino fundamental (EJA)">>, <<"Ensino Medio (EJA)">>,
     <<"Extensao">>, <<"Graduacao">>, <<"Pos-Graduacao">>, <<"Segunda Graduacao">>,
     <<"Tecnologo">>}

parcerias_validas == {<<"Parceiro Comercial">>, <<"Parceiro Polo">>, <<"Comercial Interno">>}

\* series.isin(values) on one cell
isin(v, values) == v.k = "str" /\ v.s \in values

Date(year, month, day) == [k |-> "date", s |-> <<>>, p |-> year * 10000 + month * 100 + day, q |-> 1]

year(v) == v.p \div 10000

month(v) == (v.p \div 100) % 100

day(v) == v.p % 100

IsLeap(y) == (y % 4 = 0 /\ y % 100 # 0) \/ y % 400 = 0

DaysInMonth(y, m) ==
    IF m = 2 THEN (IF IsLeap(y) THEN 29 ELSE 28)
    ELSE IF m \in {4, 6, 9, 11} THEN 30 ELSE 31

AllDigits(s) == s # <<>> /\ \A n \in DOMAIN s : IsDigit(s[n])

\* pd.to_datetime(series, format='%d/%m/%Y', errors='coerce') on one cell: the day is
\* 1 to 31 in one or two digits (or a space and a digit), the month 1 to 12 in one or
\* two digits, the year four digits; the whole string is consumed, the date exists and
\* lies within the range of a Timestamp; anything else is NaT
to_datetime(v) ==
    IF v.k # "str" THEN NaN
    ELSE LET s       == v.s
             slashes == {n \in DOMAIN s : s[n] = "/"}
         IN IF Cardinality(slashes) # 2 THEN NaN
            ELSE LET s1 == CHOOSE n \in slashes : \A o \in slashes : n <= o
                     s2 == CHOOSE n \in slashes : \A o \in slashes : n >= o
                     dd == SubSeq(s, 1, s1 - 1)
                     mm == SubSeq(s, s1 + 1, s2 - 1)
                     yy == SubSeq(s, s2 + 1, Len(s))
                     d  == IF Len(dd) = 2 /\ dd[1] = " " THEN Tail(dd) ELSE dd
                 IN IF /\ AllDigits(d) /\ Len(dd) <= 2
                       /\ AllDigits(mm) /\ Len(mm) <= 2
                       /\ AllDigits(yy) /\ Len(yy) = 4
                       /\ DigitsVal(mm) \in 1..12
                       /\ DigitsVal(d) \in 1..DaysInMonth(DigitsVal(yy), DigitsVal(mm))
                       /\ DigitsVal(yy) \in 1678..2261
                    THEN Date(DigitsVal(yy), DigitsVal(mm), DigitsVal(d))
                    ELSE NaN

meses_pt == <<"Janeiro", "Fevereiro", "Marco", "Abril", "Maio", "Junho", "Julho", "Agosto",
              "Setembro", "Outubro", "Novembro", "Dezembro">>

TwoDigits(n) == IF n < 10 THEN <<"0">> \o NatStr(n) ELSE NatStr(n)

\* the columns lines 286-301 add to one row whose DT_PAGTO is the date dt
DateColumns(dt) ==
    << Int2Num(year(dt)), Int2Num(month(dt)),
       Str(NatStr(year(dt)) \o <<"-">> \o TwoDigits(month(dt))),
       Int2Num(((month(dt) - 1) \div 3) + 1),
       Int2Num(IF month(dt) <= 6 THEN 1 ELSE 2),
       Int2Num(day(dt)),
       Str(<<meses_pt[month(dt)]>>) >>

\* a faulty variant of ValidYear: the following year is kept too
ValidYear_NextYear(ano, today) == ano >= 2020 /\ ano <= today + 1

\* line 306
ValidYear(ano, today) == ano >= 2020 /\ ano <= today

\* the table returned, and whether the except branch was taken (st.warning)
_process_payment_date(t, today) ==
    IF ~HasCol(t, "DT_PAGTO") THEN [raised |-> FALSE, df |-> t]
    ELSE IF IsDup(t, "DT_PAGTO") THEN [raised |-> TRUE, df |-> EmptyDF]
    ELSE LET at        == Pos(t, "DT_PAGTO")
             converted == [i \in DOMAIN t.rows |-> [t.rows[i] EXCEPT ![at] = to_datetime(@)]]
             parsed    == SelectSeq(converted, LAMBDA r : notna(r[at]))
         IN IF parsed = <<>> THEN [raised |-> FALSE, df |-> [columns |-> t.columns, rows |-> <<>>]]
            ELSE LET dated == [i \in DOMAIN parsed |-> parsed[i] \o DateColumns(parsed[i][at])]
                 IN [raised |-> FALSE,
                     df     |-> [columns |-> t.columns \o <<"ANO", "MES", "MES_ANO", "TRIMESTRE",
                                                            "SEMESTRE", "DIA_DO_MES", "MES_NOME">>,
                                 rows    |-> SelectSeq(dated,
                                                LAMBDA r : ValidYear(year(r[at]), today))]]

essential_cols == <<"CPF", "DT_PAGTO", "NIVEL", "TIPO_PARCERIA">>

\* dropna(subset=essential_cols)
dropna(t) ==
    [t EXCEPT !.rows = SelectSeq(t.rows, LAMBDA r :
        \A j \in DOMAIN t.columns : t.columns[j] \in Range(essential_cols) => notna(r[j]))]

\* the table returned and the messages shown; a filter on a column whose name occurs
\* twice, like the selection of a name that is no column, ends in the except branch
clean_vendas_data(raw, today) ==
    IF empty(raw) THEN [df |-> raw, st |-> <<>>]
    ELSE LET n == NormalizeColumns(raw, vendas_columns_map, {})
         IN IF n.error \/ IsDup(n.table, "NIVEL") \/ IsDup(n.table, "TIPO_PARCERIA")
            THEN [df |-> EmptyDF, st |-> <<"error">>]
            ELSE LET nivel    == [n.table EXCEPT !.rows = SelectSeq(@, LAMBDA r :
                                      isin(r[Pos(n.table, "NIVEL")], modalidades_validas))]
                     parceria == [nivel EXCEPT !.rows = SelectSeq(@, LAMBDA r :
                                      isin(r[Pos(n.table, "TIPO_PARCERIA")], parcerias_validas))]
                     dated    == _process_payment_date(parceria, today)
                 IN IF dated.raised
                    THEN [df |-> EmptyDF, st |-> <<"warning", "error">>]
                    ELSE [df |-> dropna(_clean_text_columns(dated.df)), st |-> <<>>]

(***************************************************************************)
(* The join of students to municipalities.                                 *)
(***************************************************************************)
alunos_cols == <<"CIDADE", "UF">>

municipios_cols == <<"MUNICIPIO_IBGE", "UF", "LAT", "LNG">>

\* a faulty variant of Matches: the state is not compared
Matches_NameOnly(alunos_df, i, municipios_df) ==
    SelectSeq([j \in DOMAIN municipios_df.rows |-> j],
              LAMBDA j : Cell(municipios_df, j, "MUNICIPIO_IBGE") = Cell(alunos_df, i, "CIDADE"))

\* the municipality rows whose (MUNICIPIO_IBGE, UF) is the student's (CIDADE, UF), in order
Matches(alunos_df, i, municipios_df) ==
    SelectSeq([j \in DOMAIN municipios_df.rows |-> j],
              LAMBDA j : /\ Cell(municipios_df, j, "MUNICIPIO_IBGE") = Cell(alunos_df, i, "CIDADE")
                         /\ Cell(municipios_df, j, "UF") = Cell(alunos_df, i, "UF"))

\* a faulty variant of MergedRows: an inner join, which drops the student without a match
MergedRows_Inner(alunos_df, i, municipios_df) ==
    LET m == Matches(alunos_df, i, municipios_df)
    IN [n \in DOMAIN m |->
           alunos_df.rows[i] \o << Cell(municipios_df, m[n], "MUNICIPIO_IBGE"),
                                   Cell(municipios_df, m[n], "LAT"),
                                   Cell(municipios_df, m[n], "LNG") >>]

\* the rows a left merge gives student i: one for each match, one with NaN when there is none
MergedRows(alunos_df, i, municipios_df) ==
    LET m == Matches(alunos_df, i, municipios_df)
    IN IF m = <<>>
       THEN << alunos_df.rows[i] \o <<NaN, NaN, NaN>> >>
       ELSE [n \in DOMAIN m |->
                alunos_df.rows[i] \o << Cell(municipios_df, m[n], "MUNICIPIO_IBGE"),
                                        Cell(municipios_df, m[n], "LAT"),
                                        Cell(municipios_df, m[n], "LNG") >>]

RECURSIVE LeftMerge(_, _, _)
LeftMerge(alunos_df, i, municipios_df) ==
    IF i > Len(alunos_df.rows) THEN <<>>
    ELSE MergedRows(alunos_df, i, municipios_df) \o LeftMerge(alunos_df, i + 1, municipios_df)

\* a faulty variant of merge_alunos_municipios: no early return on an empty table
merge_alunos_municipios_NoEmptyCheck(alunos_df, municipios_df) ==
    IF /\ \A n \in DOMAIN alunos_cols : HasCol(alunos_df, alunos_cols[n])
       /\ \A n \in DOMAIN municipios_cols : HasCol(municipios_df, municipios_cols[n])
    THEN [columns |-> alunos_df.columns \o <<"MUNICIPIO_IBGE", "LAT", "LNG">>,
          rows    |-> LeftMerge(alunos_df, 1, municipios_df)]
    ELSE alunos_df

merge_alunos_municipios(alunos_df, municipios_df) ==
    IF empty(alunos_df) \/ empty(municipios_df) THEN alunos_df
    ELSE IF /\ \A n \in DOMAIN alunos_cols : HasCol(alunos_df, alunos_cols[n])
            /\ \A n \in DOMAIN municipios_cols : HasCol(municipios_df, municipios_cols[n])
    THEN IF \/ \E n \in DOMAIN alunos_cols : IsDup(alunos_df, alunos_cols[n])
            \/ \E n \in DOMAIN municipios_cols : IsDup(municipios_df, municipios_cols[n])
         THEN alunos_df   \* the merge raises on an ambiguous key, and the except returns alunos_df
         ELSE [columns |-> alunos_df.columns \o <<"MUNICIPIO_IBGE", "LAT", "LNG">>,
               rows    |-> LeftMerge(alunos_df, 1, municipios_df)]
    ELSE alunos_df

(***************************************************************************)
(* Coverage metrics.                                                       *)
(***************************************************************************)
coverage_radius == 100

ZeroMetrics ==
    [total_municipios |-> Int2Num(0), municipios_cobertos |-> Int2Num(0),
     percentual_cobertura |-> Int2Num(0), distancia_media |-> Int2Num(0),
     alunos_cobertos |-> Int2Num(0), total_alunos |-> Int2Num(0)]

\* Series.sum() and Series.mean() skip NaN
SumCol(t, rows, name) ==
    SumSeq(SelectSeq([i \in DOMAIN rows |-> rows[i][Pos(t, name)]], notna))

\* a faulty variant of IsValido: >= 0 in place of > 0
IsValido_GE(t, row) ==
    notna(row[Pos(t, "DISTANCIA_KM")]) /\ NumLE(Int2Num(0), row[Pos(t, "DISTANCIA_KM")])

\* a row of municipios_validos: DISTANCIA_KM.notna() & (DISTANCIA_KM > 0)
IsValido(t, row) ==
    notna(row[Pos(t, "DISTANCIA_KM")]) /\ NumLT(Int2Num(0), row[Pos(t, "DISTANCIA_KM")])

\* a row of municipios_cobertura: DISTANCIA_KM <= coverage_radius
IsCobertura(t, row) == NumLE(row[Pos(t, "DISTANCIA_KM")], Int2Num(coverage_radius))

\* comparing a column that holds a string with a number raises TypeError,
\* which the except swallows: the metrics stay at zero
calculate_coverage_metrics(polos_df, municipios_df) ==
    IF empty(polos_df) \/ empty(municipios_df) \/ ~HasCol(municipios_df, "DISTANCIA_KM")
    THEN ZeroMetrics
    ELSE IF \E i \in DOMAIN municipios_df.rows : Cell(municipios_df, i, "DISTANCIA_KM").k = "str"
    THEN ZeroMetrics
    ELSE LET municipios_validos   == SelectSeq(municipios_df.rows,
                                         LAMBDA row : IsValido(municipios_df, row))
             municipios_cobertura == SelectSeq(municipios_validos,
                                         LAMBDA row : IsCobertura(municipios_df, row))
             soma == SumCol(municipios_df, municipios_validos, "DISTANCIA_KM")
         IN IF municipios_validos = <<>> THEN ZeroMetrics
            ELSE [total_municipios     |-> Int2Num(Len(municipios_validos)),
                  municipios_cobertos  |-> Int2Num(Len(municipios_cobertura)),
                  percentual_cobertura |-> Percent(Len(municipios_cobertura),
                                                   Len(municipios_validos)),
                  distancia_media      |-> Num(soma.p, soma.q * Len(municipios_validos)),
                  alunos_cobertos      |-> IF HasCol(municipios_df, "TOTAL_ALUNOS")
                                           THEN SumCol(municipios_df, municipios_cobertura,
                                                       "TOTAL_ALUNOS")
                                           ELSE Int2Num(0),
                  total_alunos         |-> IF HasCol(municipios_df, "TOTAL_ALUNOS")
                                           THEN SumCol(municipios_df, municipios_validos,
                                                       "TOTAL_ALUNOS")
                                           ELSE Int2Num(0)]

(***************************************************************************)
(* The municipal coverage enhancement of the geographic page.              *)
(***************************************************************************)
BoolCell(b) == [k |-> "bool", s |-> <<>>, p |-> IF b THEN 1 ELSE 0, q |-> 1]

\* row.get(name, default)
RowGet(t, row, name, default) == IF HasCol(t, name) THEN row[Pos(t, name)] ELSE default

\* float(distancia) of a cell that is not NaN: a number is itself, a string is parsed
\* (ValueError, hence 'Sem Dados', when it is no number)
ToFloat(v) == IF v.k = "str" THEN to_numeric(strip(v.s)) ELSE v

\* a faulty variant of _categorize_coverage_type: the distance is looked at before the campus
_categorize_coverage_type_DistanceFirst(t, row) ==
    LET tem_polo  == RowGet(t, row, "TEM_POLO", BoolCell(FALSE))
        distancia == RowGet(t, row, "DISTANCIA_KM", Int2Num(999))
    IN IF isna(distancia) \/ isna(ToFloat(distancia)) THEN Str(<<"Sem Dados">>)
       ELSE IF tem_polo.k = "bool" /\ tem_polo.p = 1 THEN Str(<<"Com Polo">>)
       ELSE IF NumLE(ToFloat(distancia), Int2Num(50)) THEN Str(<<"Cobertura Proxima">>)
       ELSE IF NumLE(ToFloat(distancia), Int2Num(100)) THEN Str(<<"Cobertura Estendida">>)
       ELSE Str(<<"Fora da Cobertura">>)

_categorize_coverage_type(t, row) ==
    LET tem_polo  == RowGet(t, row, "TEM_POLO", BoolCell(FALSE))
        distancia == RowGet(t, row, "DISTANCIA_KM", Int2Num(999))
    IN IF tem_polo.k = "bool" /\ tem_polo.p = 1 THEN Str(<<"Com Polo">>)
       ELSE IF isna(distancia) \/ isna(ToFloat(distancia)) THEN Str(<<"Sem Dados">>)
       ELSE IF NumLE(ToFloat(distancia), Int2Num(50)) THEN Str(<<"Cobertura Proxima">>)
       ELSE IF NumLE(ToFloat(distancia), Int2Num(100)) THEN Str(<<"Cobertura Estendida">>)
       ELSE Str(<<"Fora da Cobertura">>)

\* a faulty variant of polos_cidades: the campus cities are not uppercased
polos_cidades_NoUpper(polos_df) ==
    {strip(Cell(polos_df, i, "CIDADE").s) :
        i \in {r \in DOMAIN polos_df.rows : Cell(polos_df, r, "CIDADE").k = "str"}}

\* set(polos_df['CIDADE'].dropna().str.upper().str.strip())
polos_cidades(polos_df) ==
    {strip(upper(Cell(polos_df, i, "CIDADE").s)) :
        i \in {r \in DOMAIN polos_df.rows : Cell(polos_df, r, "CIDADE").k = "str"}}

\* the rows of the group of row i in groupby('UF'): a NaN key belongs to no group
GroupUF(t, i) ==
    IF isna(Cell(t, i, "UF")) THEN <<>>
    ELSE SelectSeq(t.rows, LAMBDA row : row[Pos(t, "UF")] = Cell(t, i, "UF"))

MeanCol(t, rows, name) ==
    LET present == SelectSeq([i \in DOMAIN rows |-> rows[i][Pos(t, name)]], notna)
        soma    == SumSeq(present)
    IN IF present = <<>> THEN NaN ELSE Num(soma.p, soma.q * Len(present))

CountTrue(t, rows, name) ==
    Int2Num(Len(SelectSeq(rows, LAMBDA row : row[Pos(t, name)].p = 1)))

CountPresent(t, rows, name) ==
    Int2Num(Len(SelectSeq(rows, LAMBDA row : notna(row[Pos(t, name)]))))

\* the four per-UF statistics merged back on UF (NaN for a row in no group)
WithCoverageStats(t) ==
    [columns |-> t.columns \o <<"Municipios_Com_Polo", "Distancia_Media",
                                "Total_Alunos", "Total_Municipios">>,
     rows    |-> [i \in DOMAIN t.rows |->
        IF GroupUF(t, i) = <<>> THEN t.rows[i] \o <<NaN, NaN, NaN, NaN>>
        ELSE t.rows[i] \o << CountTrue(t, GroupUF(t, i), "TEM_POLO"),
                             MeanCol(t, GroupUF(t, i), "DISTANCIA_KM"),
                             SumCol(t, GroupUF(t, i), "TOTAL_ALUNOS"),
                             CountPresent(t, GroupUF(t, i), "MUNICIPIO_IBGE") >>]]

\* the groupby raises (and the except returns municipios_df) when a grouped or
\* aggregated column is absent or holds strings where numbers are averaged
StatsRaise(t) ==
    \/ \E name \in {"UF", "DISTANCIA_KM", "TOTAL_ALUNOS", "MUNICIPIO_IBGE"} : ~HasCol(t, name)
    \/ \E i \in DOMAIN t.rows : \/ Cell(t, i, "DISTANCIA_KM").k = "str"
                                \/ Cell(t, i, "TOTAL_ALUNOS").k = "str"

enhance_municipal_data_for_coverage(municipios_df, polos_df) ==
    IF empty(municipios_df) \/ empty(polos_df) THEN municipios_df
    ELSE LET with_polo ==
                IF HasCol(polos_df, "CIDADE") /\ HasCol(municipios_df, "MUNICIPIO_IBGE")
                THEN SetColBy(municipios_df, "TEM_POLO", LAMBDA i :
                        BoolCell(/\ Cell(municipios_df, i, "MUNICIPIO_IBGE").k = "str"
                                 /\ strip(upper(Cell(municipios_df, i, "MUNICIPIO_IBGE").s))
                                        \in polos_cidades(polos_df)))
                ELSE SetCol(municipios_df, "TEM_POLO", BoolCell(FALSE))
             with_tipo ==
                SetColBy(with_polo, "TIPO_COBERTURA", LAMBDA i :
                        _categorize_coverage_type(with_polo, with_polo.rows[i]))
         IN IF StatsRaise(with_tipo) THEN municipios_df ELSE WithCoverageStats(with_tipo)

\* geographic_analysis.py _display_coverage_stats: the three counts it shows;
\* comparing a column that holds a string raises, and nothing is shown
CoverageKm == 100

_display_coverage_stats(polos_df, municipios_df) ==
    IF /\ HasCol(municipios_df, "DISTANCIA_KM")
       /\ \E i \in DOMAIN municipios_df.rows : Cell(municipios_df, i, "DISTANCIA_KM").k = "str"
    THEN [shown |-> FALSE, total_municipios |-> 0, municipios_com_polos |-> 0,
          municipios_cobertura |-> 0]
    ELSE [shown |-> TRUE,
          total_municipios |-> Len(municipios_df.rows),
          municipios_com_polos |->
              IF HasCol(municipios_df, "UNIDADE_POLO")
              THEN Len(SelectSeq(municipios_df.rows,
                        LAMBDA row : notna(row[Pos(municipios_df, "UNIDADE_POLO")])))
              ELSE 0,
          municipios_cobertura |->
              IF HasCol(municipios_df, "DISTANCIA_KM")
              THEN Len(SelectSeq(municipios_df.rows,
                        LAMBDA row : /\ notna(row[Pos(municipios_df, "DISTANCIA_KM")])
                                     /\ NumLE(row[Pos(municipios_df, "DISTANCIA_KM")],
                                              Int2Num(CoverageKm))))
              ELSE 0]

(***************************************************************************)
(* The alignment metrics of the alignment page.                            *)
(***************************************************************************)
\* alunos_df['ALINHADO'] = alunos_df['POLO'] == alunos_df['POLO_MAIS_PROXIMO']
WithAlinhado(alunos_df) ==
    SetColBy(alunos_df, "ALINHADO", LAMBDA i :
        BoolCell(PyEq(Cell(alunos_df, i, "POLO"), Cell(alunos_df, i, "POLO_MAIS_PROXIMO"))))

AlignmentMetrics(alunos_df) ==
    LET total_alunos == Len(alunos_df.rows)
        alinhados    == Len(SelectSeq(WithAlinhado(alunos_df).rows,
                            LAMBDA row : row[Pos(WithAlinhado(alunos_df), "ALINHADO")].p = 1))
    IN [total_alunos     |-> total_alunos,
        alinhados        |-> alinhados,
        desalinhados     |-> total_alunos - alinhados,
        taxa_alinhamento |-> IF total_alunos > 0 THEN Percent(alinhados, total_alunos)
                             ELSE Int2Num(0)]

\* no migration matrix is displayed
NoMatrix == [shown |-> FALSE, index |-> {}, columns |-> {}, values |-> <<>>]

(***************************************************************************)
(* The migration matrix of the alignment page.  A matrix is its row        *)
(* labels, its column labels and a count for each pair of them; the        *)
(* margins of pd.crosstab carry the label All.                             *)
(***************************************************************************)
TopPolos == 10

All == <<"All">>

\* alunos_df[alunos_df['POLO'] != alunos_df['POLO_MAIS_PROXIMO']]
desalinhados(alunos_df) ==
    SelectSeq(alunos_df.rows, LAMBDA r :
        ~PyEq(r[Pos(alunos_df, "POLO")], r[Pos(alunos_df, "POLO_MAIS_PROXIMO")]))

\* series.value_counts(): the count of each non-missing value of the column
value_counts(alunos_df, rows, name) ==
    LET at     == Pos(alunos_df, name)
        labels == {rows[n][at].s : n \in {m \in DOMAIN rows : notna(rows[m][at])}}
    IN [a \in labels |-> Cardinality({n \in DOMAIN rows : rows[n][at] = Str(a)})]

Min(a, b) == IF a < b THEN a ELSE b

\* value_counts().head(10).index: ten labels of highest count, all of them when there
\* are at most ten; which of several labels of equal count come first is left open
TopSets(alunos_df, name) ==
    LET counts == value_counts(alunos_df, desalinhados(alunos_df), name)
        labels == DOMAIN counts
    IN {top \in SUBSET labels :
           /\ Cardinality(top) = Min(TopPolos, Cardinality(labels))
           /\ \A a \in top, b \in labels \ top : counts[a] >= counts[b]}

\* pd.crosstab(POLO, POLO_MAIS_PROXIMO, margins=True) of the given rows: a row that
\* misses either label is in no cell
crosstab(alunos_df, rows) ==
    LET origem  == Pos(alunos_df, "POLO")
        destino == Pos(alunos_df, "POLO_MAIS_PROXIMO")
        pairs   == {n \in DOMAIN rows : notna(rows[n][origem]) /\ notna(rows[n][destino])}
        index   == {rows[n][origem].s : n \in pairs}
        columns == {rows[n][destino].s : n \in pairs}
        In(n, a, b) == /\ (a = All \/ rows[n][origem].s = a)
                       /\ (b = All \/ rows[n][destino].s = b)
    IN IF pairs = {} THEN [index |-> {}, columns |-> {}, values |-> <<>>]
       ELSE [index   |-> index \cup {All},
             columns |-> columns \cup {All},
             values  |-> [c \in (index \cup {All}) \X (columns \cup {All}) |->
                             Cardinality({n \in pairs : In(n, c[1], c[2])})]]

\* the matrix the page displays, given the two sets of top labels
_render_migration_matrix(alunos_df, top_polos_origem, top_polos_destino) ==
    IF desalinhados(alunos_df) = <<>> THEN NoMatrix
    ELSE LET matriz_migracao  == crosstab(alunos_df, desalinhados(alunos_df))
             polos_relevantes == top_polos_origem \cup top_polos_destino
             index            == matriz_migracao.index \cap polos_relevantes
             columns          == matriz_migracao.columns \cap polos_relevantes
         IN IF index = {} \/ columns = {} THEN NoMatrix
            ELSE [shown   |-> TRUE,
                  index   |-> index,
                  columns |-> columns,
                  values  |-> [c \in index \X columns |-> matriz_migracao.values[c]]]

(***************************************************************************)
(* The configuration read at import of config.py.  A value of the          *)
(* environment is a string, or None when the variable is absent.           *)
(***************************************************************************)
None == [k |-> "none", s |-> <<>>, p |-> 0, q |-> 1]

\* the names given to get_env_var, in the order the dictionary display evaluates them
env_names ==
    <<"GOOGLE_SHEETS_POLOS_API_KEY", "GOOGLE_SHEETS_POLOS_SHEET_ID",
      "GOOGLE_SHEETS_VENDAS_API_KEY", "GOOGLE_SHEETS_VENDAS_SHEET_ID",
      "GOOGLE_SHEETS_ALUNOS_API_KEY", "GOOGLE_SHEETS_ALUNOS_SHEET_ID">>

\* a faulty variant of get_env_var: an empty value is refused too
get_env_var_NotEmpty(env, name) ==
    IF env[name] = None \/ env[name] = Str(<<>>)
    THEN [raises |-> TRUE, value |-> None]
    ELSE [raises |-> FALSE, value |-> env[name]]

get_env_var(env, name) ==
    IF env[name] = None
    THEN [raises |-> TRUE, value |-> None]
    ELSE [raises |-> FALSE, value |-> env[name]]

NoError == [type |-> "none", name |-> ""]

NoConfig == <<>>

\* the first name whose lookup raises, 0 when none does
RECURSIVE FirstRaising(_, _)
FirstRaising(env, n) ==
    IF n > Len(env_names) THEN 0
    ELSE IF get_env_var(env, env_names[n]).raises THEN n
    ELSE FirstRaising(env, n + 1)

\* config.py lines 20-43
ConfigOf(env) ==
    [planilha_polos  |-> [API_KEY  |-> get_env_var(env, env_names[1]).value,
                          SHEET_ID |-> get_env_var(env, env_names[2]).value,
                          abas     |-> <<"POLOS ATIVOS", "Sheet3">>],
     planilha_vendas |-> [API_KEY  |-> get_env_var(env, env_names[3]).value,
                          SHEET_ID |-> get_env_var(env, env_names[4]).value,
                          abas     |-> <<"Base de Vendas">>],
     planilha_alunos |-> [API_KEY  |-> get_env_var(env, env_names[5]).value,
                          SHEET_ID |-> get_env_var(env, env_names[6]).value,
                          abas     |-> <<"lista_alunos">>]]

\* the environment in which every variable is set
FullEnviron == [name \in Range(env_names) |-> Str(<<"k">>)]

IdleStartup ==
    /\ environ = FullEnviron
    /\ GOOGLE_SHEETS_CONFIG = ConfigOf(FullEnviron)
    /\ raised = NoError

(***************************************************************************)
(* Values of the variables a specification does not use.                   *)
(***************************************************************************)
NoData == [polos_ativos |-> EmptyDF, municipios |-> EmptyDF, alunos |-> EmptyDF]

NoProcessed == [polos |-> EmptyDF, municipios |-> EmptyDF, alunos |-> EmptyDF]

NoClean == [polos |-> EmptyDF, municipios |-> EmptyDF, alunos |-> EmptyDF]

NoStats ==
    [shown |-> FALSE, total_municipios |-> 0, municipios_com_polos |-> 0,
     municipios_cobertura |-> 0]

NoAlignment ==
    [total_alunos |-> 0, alinhados |-> 0, desalinhados |-> 0, taxa_alinhamento |-> Int2Num(0)]

NoView ==
    [page |-> "none", municipios_enhanced |-> EmptyDF, stats |-> NoStats,
     alignment |-> NoAlignment, matriz_filtrada |-> NoMatrix]

NoResponse == [outcome |-> "none", values |-> <<>>]

MaxYear == 2026

IdleCache == cache = <<>> /\ now = 0 /\ args = <<>> /\ urls = <<>> /\ IdleStartup

IdleAux ==
    /\ IdleCache
    /\ current_year = MaxYear
    /\ response = NoResponse
    /\ requests = 0
    /\ st = <<>>
    /\ returned = [columns |-> <<>>, rows |-> <<>>]

\* a campus table with one campus, as clean_polos_data returns it
OnePolo(cidade) ==
    [columns |-> <<"UNIDADE", "RAZAO", "ENDERECO", "CIDADE", "UF", "CEP", "lat", "long", "REGIAO">>,
     rows    |-> << <<Str(<<"P","1">>), NaN, NaN, Str(cidade), Str(<<"S","P">>), NaN,
                      Num(-235, 10), Num(-466, 10), Str(<<"Sudeste">>)>> >>]

\* all sequences over S of length 1..n
SeqsUpTo(S, n) == UNION {[1..m -> S] : m \in 1..n}

(***************************************************************************)
(* SpecCoverage: calculate_coverage_metrics applied, by the coverage page, *)
(* to a campus table and a municipality table drawn from bounded sets.     *)
(***************************************************************************)
CoverageDistances == {NaN, Int2Num(0), Int2Num(50), Int2Num(100), Int2Num(150)}

CoverageStudents == {Int2Num(5), Int2Num(10), Int2Num(20)}

CoverageTables ==
    {[columns |-> <<"DISTANCIA_KM", "TOTAL_ALUNOS">>, rows |-> r] :
        r \in SeqsUpTo({<<d, a>> : d \in CoverageDistances, a \in CoverageStudents},
                       MaxMunicipios)}

InitCoverage ==
    /\ IdleAux
    /\ pc = "processed"
    /\ data = NoData
    /\ \E m \in CoverageTables :
          processed_data = [polos |-> OnePolo(<<"A">>), municipios |-> m, alunos |-> EmptyDF]
    /\ df_clean = NoClean
    /\ df = EmptyDF
    /\ metrics = ZeroMetrics
    /\ view = NoView

\* pages/coverage_analysis.py render, app.py section 3: the metrics are computed
\* when both tables are non-empty
CoveragePage ==
    /\ pc = "processed"
    /\ ~empty(processed_data.polos) /\ ~empty(processed_data.municipios)
    /\ metrics' = calculate_coverage_metrics(processed_data.polos, processed_data.municipios)
    /\ pc' = "coverage"
    /\ UNCHANGED <<data, processed_data, df_clean, df, view>>
    /\ UNCHANGED aux

NextCoverage == CoveragePage

SpecCoverage == InitCoverage /\ [][NextCoverage]_vars

\* the sum of a column over a finite set of row numbers
RECURSIVE SumOver(_, _, _)
SumOver(t, S, name) ==
    IF S = {} THEN Int2Num(0)
    ELSE LET i == CHOOSE x \in S : TRUE
         IN NumAdd(Cell(t, i, name), SumOver(t, S \ {i}, name))

ValidSet(t) ==
    {i \in DOMAIN t.rows : Cell(t, i, "DISTANCIA_KM").k = "num" /\ Cell(t, i, "DISTANCIA_KM").p > 0}

CoveredSet(t) ==
    {i \in ValidSet(t) : Cell(t, i, "DISTANCIA_KM").p <= 100 * Cell(t, i, "DISTANCIA_KM").q}

\* C1: for non-empty campus and municipality tables the metrics are: total = the
\* number of municipalities with a non-missing distance > 0 (the valid ones),
\* covered = the number of valid ones with distance <= 100, percentage =
\* covered / total * 100, mean distance over the valid ones, and the student
\* sums over the covered and over the valid municipalities.
C1_CoverageMetrics ==
    pc = "coverage" =>
        LET t == processed_data.municipios
            V == ValidSet(t)
            C == CoveredSet(t)
        IN /\ metrics.total_municipios = Int2Num(Cardinality(V))
           /\ metrics.municipios_cobertos = Int2Num(Cardinality(C))
           /\ V # {} => /\ metrics.percentual_cobertura.p * Cardinality(V)
                            = 100 * Cardinality(C) * metrics.percentual_cobertura.q
                        /\ LET soma == SumOver(t, V, "DISTANCIA_KM")
                           IN metrics.distancia_media.p * soma.q * Cardinality(V)
                                = soma.p * metrics.distancia_media.q
           /\ metrics.alunos_cobertos = SumOver(t, C, "TOTAL_ALUNOS")
           /\ metrics.total_alunos = SumOver(t, V, "TOTAL_ALUNOS")

\* the example of the claim: distances 50, 150 and missing with students 10, 5, 20
\* give total 2, covered 1, 50%, mean 100, students 10 of 15
C1_Witness ==
    /\ pc = "coverage"
    /\ processed_data.municipios.rows =
          << <<Int2Num(50), Int2Num(10)>>, <<Int2Num(150), Int2Num(5)>>, <<NaN, Int2Num(20)>> >>
    /\ metrics = [total_municipios |-> Int2Num(2), municipios_cobertos |-> Int2Num(1),
                  percentual_cobertura |-> Int2Num(50), distancia_media |-> Int2Num(100),
                  alunos_cobertos |-> Int2Num(10), total_alunos |-> Int2Num(15)]

(***************************************************************************)
(* SpecRegion: _add_region_column applied to a one-row table whose UF is   *)
(* drawn from the missing value, a number, every string of at most         *)
(* MaxUFLen characters of UFAlphabet, and the 27 state codes.              *)
(***************************************************************************)
UFAlphabet == {"S", "P", "R", "s", "p", " "}

StateRegions == <<
    <<"A","C","Norte">>, <<"A","L","Nordeste">>, <<"A","P","Norte">>, <<"A","M","Norte">>,
    <<"B","A","Nordeste">>, <<"C","E","Nordeste">>, <<"D","F","Centro-Oeste">>,
    <<"E","S","Sudeste">>, <<"G","O","Centro-Oeste">>, <<"M","A","Nordeste">>,
    <<"M","T","Centro-Oeste">>, <<"M","S","Centro-Oeste">>, <<"M","G","Sudeste">>,
    <<"P","A","Norte">>, <<"P","B","Nordeste">>, <<"P","R","Sul">>, <<"P","E","Nordeste">>,
    <<"P","I","Nordeste">>, <<"R","J","Sudeste">>, <<"R","N","Nordeste">>, <<"R","S","Sul">>,
    <<"R","O","Norte">>, <<"R","R","Norte">>, <<"S","C","Sul">>, <<"S","P","Sudeste">>,
    <<"S","E","Nordeste">>, <<"T","O","Norte">> >>

StateCodes == {<<StateRegions[n][1], StateRegions[n][2]>> : n \in DOMAIN StateRegions}

FiveRegions == {"Norte", "Nordeste", "Centro-Oeste", "Sudeste", "Sul"}

UFInputs ==
    {NaN, Int2Num(0), Str(<<>>), Str(<<"n","a","n">>), Str(<<"N","a","N">>),
     Str(<<" ","s","p"," ">>), Str(<<"S","P","X">>)}
    \cup {Str(s) : s \in SeqsUpTo(UFAlphabet, MaxUFLen)}
    \cup {Str(c) : c \in StateCodes}
    \cup {Str(lower(c)) : c \in StateCodes}

InitRegion ==
    /\ IdleAux
    /\ pc = "start"
    /\ data = NoData
    /\ processed_data = NoProcessed
    /\ df_clean = NoClean
    /\ \E uf \in UFInputs : df = [columns |-> <<"UF">>, rows |-> << <<uf>> >>]
    /\ metrics = ZeroMetrics
    /\ view = NoView

AddRegionColumn ==
    /\ pc = "start"
    /\ df' = _add_region_column(df)
    /\ pc' = "done"
    /\ UNCHANGED <<data, processed_data, df_clean, metrics, view>>
    /\ UNCHANGED aux

NextRegion == AddRegionColumn

SpecRegion == InitRegion /\ [][NextRegion]_vars

\* C3: the region classifier is total: for a state code that, uppercased and
\* trimmed, is one of the 27 codes it returns that code's region, one of the five
\* regions; for every other input (blank, missing, 'nan', unknown code) it returns
\* the sentinel.
C3_RegionTotal ==
    pc = "done" =>
        LET uf     == Cell(df, 1, "UF")
            regiao == Cell(df, 1, "REGIAO")
            code   == IF uf.k = "str" THEN strip(upper(uf.s)) ELSE <<>>
        IN IF code \in StateCodes
           THEN /\ \E n \in DOMAIN StateRegions :
                      /\ code = <<StateRegions[n][1], StateRegions[n][2]>>
                      /\ regiao = Str(<<StateRegions[n][3]>>)
                /\ regiao.s[1] \in FiveRegions
           ELSE regiao = NaoIdentificado

\* a lower-case, padded code is classified, and an unknown code gets the sentinel
C3_Witness ==
    /\ pc = "done"
    /\ Cell(df, 1, "UF") = Str(<<" ","s","p"," ">>)
    /\ Cell(df, 1, "REGIAO") = Str(<<"Sudeste">>)

(***************************************************************************)
(* One render cycle of the dashboard.  load_and_process_data cleans the    *)
(* raw tables the loader delivered and joins the students, then the        *)
(* selected page computes what it displays.  The raw tables are drawn from *)
(* four families, each varying the cells one group of cleaners reads, and  *)
(* each family has its specification: SpecDistances, SpecAlignment,        *)
(* SpecMerge and SpecCoordinates.                                          *)
(***************************************************************************)
E == Str(<<>>)

PolosHeader ==
    <<"UNIDADE", "RAZAO", "CNPJ", "ENDERECO", "CIDADE", "UF", "CEP", "TELEFONE",
      "EMAIL", "RESPONSAVEL", "STATUS", "OBS", "lat", "long">>

MunicipiosHeader ==
    <<"MUNICIPIO - IBGE", "UF", "CODIGO", "LAT", "LNG", "POLO MAIS PROXIMO", "LAT_1",
      "LNG_1", "CIDADE POLO", "UNIDADE/POLO", "DISTANCIA KM", "TEMPO", "ROTA", "OBS",
      "TOTAL DE ALUNOS">>

AlunosHeader ==
    <<"ID", "NOME", "CPF", "CEP", "Cidade", "UF", "BAIRRO", "ENDERECO", "TELEFONE",
      "EMAIL", "Curso", "Polo", "POLO MAIS PROXIMO">>

PoloRaw(cidade, lat, long) ==
    <<Str(<<"P","1">>), E, E, E, Str(cidade), Str(<<"S","P">>), E, E, E, E, E, E,
      Str(lat), Str(long)>>

MunicipioRaw(nome, uf, lat, dist) ==
    <<Str(nome), Str(uf), E, Str(lat), Str(<<"-","4","6">>), E, E, E, E, Str(<<"P","1">>),
      Str(dist), E, E, E, Str(<<"1","0">>)>>

AlunoRaw(cidade, uf, polo, proximo) ==
    <<E, E, Str(<<"1","1">>), E, Str(cidade), Str(uf), E, E, E, E, Str(<<"T","I">>),
      Str(polo), Str(proximo)>>

OneRawPolo == [columns |-> PolosHeader, rows |-> << PoloRaw(<<"A">>, <<"1">>, <<"1">>) >>]

MaxDistLen == 3

MaxAlunos == 3

MaxMergeRows == 2

MaxCoordLen == 2

DistAlphabet == {"1", ".", ",", "k", "-"}

DistStrings ==
    SeqsUpTo(DistAlphabet, MaxDistLen)
    \cup {<<>>, <<"0">>, <<"5","0">>, <<"1","0","0">>, <<"1","5","0">>, <<" ","7"," ">>,
          <<"1",".","2","3","4",",","5","6">>}

\* raw values of the student total of a municipality
TotalStrings == {<<"1","0">>, <<>>}

\* family 1: one campus in city A, one municipality whose name and raw distance vary
DataDistances ==
    {[polos_ativos |-> OneRawPolo,
      municipios   |-> [columns |-> MunicipiosHeader,
                        rows    |-> << [MunicipioRaw(nome, <<"S","P">>, <<"1">>, d)
                                           EXCEPT ![15] = Str(total)] >>],
      alunos       |-> EmptyDF] :
        nome \in {<<"A">>, <<"B">>, <<" ", "A">>}, d \in DistStrings, total \in TotalStrings}

\* family 2: students whose assigned and nearest campus vary
DataAlignment ==
    {[polos_ativos |-> EmptyDF, municipios |-> EmptyDF,
      alunos       |-> [columns |-> AlunosHeader, rows |-> r]] :
        r \in SeqsUpTo({AlunoRaw(<<"A">>, <<"S","P">>, polo, proximo) :
                            polo \in {<<"P","1">>, <<" ","P","1">>, <<"P","2">>, <<>>},
                            proximo \in {<<"P","1">>, <<>>}}
                        \cup {AlunoRaw(<<"A">>, <<"S","P">>, <<"P","2">>, <<"P","3">>)},
                       MaxAlunos)}

\* family 3: students and municipalities whose join keys and latitude vary
MergeAlunos ==
    {AlunoRaw(<<"A">>, <<"S","P">>, <<"P","1">>, <<"P","1">>),
     AlunoRaw(<<"B">>, <<"S","P">>, <<"P","1">>, <<"P","1">>),
     AlunoRaw(<<"A">>, <<"R","J">>, <<"P","1">>, <<"P","1">>),
     AlunoRaw(<<>>, <<"S","P">>, <<"P","1">>, <<"P","1">>)}

MergeMunicipios ==
    {MunicipioRaw(<<"A">>, <<"S","P">>, <<"-","2","3",".","5">>, <<"5","0">>),
     MunicipioRaw(<<"A">>, <<"S","P">>, <<>>, <<"5","0">>),
     MunicipioRaw(<<"B">>, <<"S","P">>, <<"x">>, <<"5","0">>)}

DataMerge ==
    {[polos_ativos |-> EmptyDF,
      municipios   |-> [columns |-> MunicipiosHeader, rows |-> m],
      alunos       |-> [columns |-> AlunosHeader, rows |-> a]] :
        m \in SeqsUpTo(MergeMunicipios, MaxMergeRows), a \in SeqsUpTo(MergeAlunos, MaxMergeRows)}

\* family 4: one campus whose two raw coordinates vary
CoordStrings ==
    SeqsUpTo({"1", "-", ".", ","}, MaxCoordLen)
    \cup {<<>>, <<"-","2","3",".","5">>, <<"1","2",",","5">>, <<"x">>, <<"1","x">>}

DataCoordinates ==
    {[polos_ativos |-> [columns |-> PolosHeader, rows |-> << PoloRaw(<<"A">>, lat, long) >>],
      municipios   |-> EmptyDF,
      alunos       |-> EmptyDF] : lat \in CoordStrings, long \in CoordStrings}

IdleInit ==
    /\ IdleAux
    /\ pc = "loaded"
    /\ processed_data = NoProcessed
    /\ df_clean = NoClean
    /\ df = EmptyDF
    /\ metrics = ZeroMetrics
    /\ view = NoView

InitDistances == data \in DataDistances /\ IdleInit

InitAlignment == data \in DataAlignment /\ IdleInit

InitMerge == data \in DataMerge /\ IdleInit

InitCoordinates == data \in DataCoordinates /\ IdleInit

\* app.py load_and_process_data, lines 58-84; a KeyError of a cleaner ends the run
LoadAndProcess ==
    /\ pc = "loaded"
    /\ LET p == IF empty(data.polos_ativos) THEN Returned(EmptyDF)
                ELSE clean_polos_data(data.polos_ativos)
           m == IF empty(data.municipios) \/ p.error THEN Returned(EmptyDF)
                ELSE clean_municipios_data(data.municipios)
           a == IF empty(data.alunos) \/ p.error \/ m.error THEN Returned(EmptyDF)
                ELSE clean_alunos_data(data.alunos)
           error == p.error \/ m.error \/ a.error
       IN /\ df_clean' = [polos |-> p.df_clean, municipios |-> m.df_clean,
                          alunos |-> a.df_clean]
          /\ processed_data' =
                IF error THEN NoProcessed
                ELSE [polos      |-> p.result,
                      municipios |-> m.result,
                      alunos     |-> IF empty(data.alunos) THEN EmptyDF
                                     ELSE merge_alunos_municipios(a.result, m.result)]
          /\ pc' = IF error THEN "error" ELSE "processed"
    /\ UNCHANGED <<data, df, metrics, view>>
    /\ UNCHANGED aux

\* geographic_analysis.py _render_municipal_coverage_map, lines 52-93: the statistics
\* are displayed only if the map, drawn by the chart library, was created
GeographicPage ==
    /\ pc = "processed"
    /\ ~empty(processed_data.polos) /\ ~empty(processed_data.municipios)
    /\ \E map_created \in BOOLEAN :
          LET municipios_enhanced ==
                  enhance_municipal_data_for_coverage(processed_data.municipios,
                                                      processed_data.polos)
          IN view' = [page |-> "geographic",
                      municipios_enhanced |-> municipios_enhanced,
                      stats |-> IF map_created
                                THEN _display_coverage_stats(processed_data.polos,
                                                             municipios_enhanced)
                                ELSE NoStats,
                      alignment |-> NoAlignment,
                      matriz_filtrada |-> NoMatrix]
    /\ pc' = "geographic"
    /\ UNCHANGED <<data, processed_data, df_clean, df, metrics>>
    /\ UNCHANGED aux

\* pages/alignment_analysis.py render and _render_alignment_analysis, app.py 537-559
AlignmentPage ==
    /\ pc = "processed"
    /\ ~empty(processed_data.alunos)
    /\ HasCol(processed_data.alunos, "POLO")
    /\ HasCol(processed_data.alunos, "POLO_MAIS_PROXIMO")
    /\ processed_data' = [processed_data EXCEPT !.alunos = WithAlinhado(@)]
    /\ \E top_polos_origem \in TopSets(processed_data.alunos, "POLO"),
          top_polos_destino \in TopSets(processed_data.alunos, "POLO_MAIS_PROXIMO") :
          view' = [page |-> "alignment", municipios_enhanced |-> EmptyDF, stats |-> NoStats,
                   alignment |-> AlignmentMetrics(processed_data.alunos),
                   matriz_filtrada |-> _render_migration_matrix(processed_data.alunos,
                                           top_polos_origem, top_polos_destino)]
    /\ pc' = "alignment"
    /\ UNCHANGED <<data, df_clean, df, metrics>>
    /\ UNCHANGED aux

NextDistances == LoadAndProcess \/ CoveragePage \/ GeographicPage

SpecDistances == InitDistances /\ [][NextDistances]_vars

NextAlignment == LoadAndProcess \/ AlignmentPage

SpecAlignment == InitAlignment /\ [][NextAlignment]_vars

NextMerge == LoadAndProcess

SpecMerge == InitMerge /\ [][NextMerge]_vars

NextCoordinates == LoadAndProcess

SpecCoordinates == InitCoordinates /\ [][NextCoordinates]_vars

(***************************************************************************)
(* Alignment (SpecAlignment).                                              *)
(***************************************************************************)
AlignedRows(t, Same(_, _)) ==
    {i \in DOMAIN t.rows : Same(Cell(t, i, "POLO"), Cell(t, i, "POLO_MAIS_PROXIMO"))}

FlaggedRows(t) == {i \in DOMAIN t.rows : Cell(t, i, "ALINHADO") = BoolCell(TRUE)}

AlignmentTotals(t, aligned) ==
    /\ view.alignment.total_alunos = Len(t.rows)
    /\ view.alignment.alinhados = Cardinality(aligned)
    /\ view.alignment.alinhados + view.alignment.desalinhados = view.alignment.total_alunos
    /\ IF Len(t.rows) = 0 THEN view.alignment.taxa_alinhamento = Int2Num(0)
       ELSE view.alignment.taxa_alinhamento.p * Len(t.rows)
               = 100 * Cardinality(aligned) * view.alignment.taxa_alinhamento.q

\* C2 as stated: a row is aligned iff POLO equals POLO_MAIS_PROXIMO, the counts add
\* up to the total and the rate is aligned/total*100 (0 when the total is 0).
\* Two rows' campuses that are both missing are equal values here.
C2_AlignedIffEqual ==
    pc = "alignment" =>
        LET t == processed_data.alunos
        IN /\ FlaggedRows(t) = AlignedRows(t, LAMBDA a, b : a = b)
           /\ AlignmentTotals(t, AlignedRows(t, LAMBDA a, b : a = b))

\* C2 amended: a row is aligned iff both campuses are present and are the same
\* string; a row with a missing campus is misaligned, also when both are missing.
\* aligned + misaligned = total, and the rate is aligned/total*100 (0 when total is 0).
C2_AlignedIffPresentAndEqual ==
    pc = "alignment" =>
        LET t == processed_data.alunos
            same(a, b) == a.k = "str" /\ b.k = "str" /\ a.s = b.s
        IN /\ FlaggedRows(t) = AlignedRows(t, same)
           /\ AlignmentTotals(t, AlignedRows(t, same))

\* a student with both campuses blank is shown misaligned beside an aligned one
C2_Witness ==
    /\ pc = "alignment"
    /\ LET t == processed_data.alunos
       IN /\ \E i \in DOMAIN t.rows :
                /\ isna(Cell(t, i, "POLO")) /\ isna(Cell(t, i, "POLO_MAIS_PROXIMO"))
                /\ Cell(t, i, "ALINHADO") = BoolCell(FALSE)
          /\ \E i \in DOMAIN t.rows : Cell(t, i, "ALINHADO") = BoolCell(TRUE)
          /\ view.alignment.desalinhados >= 1 /\ view.alignment.alinhados >= 1

(***************************************************************************)
(* The join (SpecMerge).  The students before the join are the result of   *)
(* clean_alunos_data; the joined table is processed_data.alunos.           *)
(***************************************************************************)
Students == clean_alunos_data(data.alunos).result

\* the student part of a joined row: the join appends three columns
StudentPart(row) == SubSeq(row, 1, Len(row) - 3)

\* student i of the cleaned student table S and municipality j have the same key
KeyMatches(S, i, j) ==
    /\ Cell(processed_data.municipios, j, "MUNICIPIO_IBGE") = Cell(S, i, "CIDADE")
    /\ Cell(processed_data.municipios, j, "UF") = Cell(S, i, "UF")

JoinedRowsOf(S, i) ==
    {k \in DOMAIN processed_data.alunos.rows :
        StudentPart(processed_data.alunos.rows[k]) = S.rows[i]}

\* C4: the join drops no student: every student appears in the result, a student
\* whose (CIDADE, UF) equals no municipality's (MUNICIPIO_IBGE, UF) has missing LAT
\* and LNG, and a matched student carries the LAT and LNG of a municipality it matched.
C4_LeftJoinKeepsStudents ==
    pc = "processed" =>
        LET R == processed_data.alunos
            M == processed_data.municipios
            S == Students
        IN \A i \in DOMAIN S.rows :
              /\ JoinedRowsOf(S, i) # {}
              /\ \A k \in JoinedRowsOf(S, i) :
                    IF \E j \in DOMAIN M.rows : KeyMatches(S, i, j)
                    THEN \E j \in DOMAIN M.rows :
                            /\ KeyMatches(S, i, j)
                            /\ Cell(R, k, "LAT") = Cell(M, j, "LAT")
                            /\ Cell(R, k, "LNG") = Cell(M, j, "LNG")
                    ELSE isna(Cell(R, k, "LAT")) /\ isna(Cell(R, k, "LNG"))

\* an unmatched student is kept with missing coordinates beside a matched one
C4_Witness ==
    /\ pc = "processed"
    /\ \E k \in DOMAIN processed_data.alunos.rows :
          /\ isna(Cell(processed_data.alunos, k, "MUNICIPIO_IBGE"))
          /\ isna(Cell(processed_data.alunos, k, "LAT"))
    /\ \E k \in DOMAIN processed_data.alunos.rows :
          /\ notna(Cell(processed_data.alunos, k, "MUNICIPIO_IBGE"))
          /\ notna(Cell(processed_data.alunos, k, "LAT"))

StudentsWithLat ==
    {StudentPart(processed_data.alunos.rows[k]) :
        k \in {r \in DOMAIN processed_data.alunos.rows :
                  notna(Cell(processed_data.alunos, r, "LAT"))}}

\* C5 as stated: the joined rows whose LAT is not missing are exactly the students
\* whose (city, state) pair exists in the municipality table.
C5_RoundTripKeyExists ==
    pc = "processed" =>
        LET S == Students
        IN StudentsWithLat =
              {S.rows[i] :
                  i \in {s \in DOMAIN S.rows :
                            \E j \in DOMAIN processed_data.municipios.rows :
                                KeyMatches(S, s, j)}}

\* C5 amended: the joined rows whose LAT is not missing are exactly the students
\* whose (city, state) pair is that of a municipality whose own LAT is not missing.
C5_RoundTripKeyWithLat ==
    pc = "processed" =>
        LET S == Students
        IN StudentsWithLat =
              {S.rows[i] :
                  i \in {s \in DOMAIN S.rows :
                            \E j \in DOMAIN processed_data.municipios.rows :
                                /\ KeyMatches(S, s, j)
                                /\ notna(Cell(processed_data.municipios, j, "LAT"))}}

\* a student matched to a municipality without latitude, beside one matched with a latitude
C5_Witness ==
    /\ pc = "processed"
    /\ \E k \in DOMAIN processed_data.alunos.rows :
          /\ notna(Cell(processed_data.alunos, k, "MUNICIPIO_IBGE"))
          /\ isna(Cell(processed_data.alunos, k, "LAT"))
    /\ StudentsWithLat # {}

(***************************************************************************)
(* SpecNormalizer: one raw table of one entity, as the loader delivers it  *)
(* (unique header names, one name per column), its width and its header    *)
(* varying; the cell of the single row at position j holds the numeral j.  *)
(***************************************************************************)
MaxWidth == 15

\* header names the loader delivers that are no target field name
NeutralHeader ==
    <<"Col_0", "Col_1", "Col_2", "Col_3", "Col_4", "Col_5", "Col_6", "Col_7", "Col_8",
      "Col_9", "Col_10", "Col_11", "Col_12", "Col_13", "Col_14", "Col_15", "Col_16">>

PositionRow(w) == [j \in 1..w |-> Str(NatStr(j - 1))]

\* the raw tables of width w whose header is neutral but for at most one position
\* that carries one of the given names
RawTables(w, names) ==
    {[columns |-> [j \in 1..w |-> NeutralHeader[j]], rows |-> << PositionRow(w) >>]}
    \cup {[columns |-> [j \in 1..w |-> IF j = at THEN name ELSE NeutralHeader[j]],
           rows    |-> << PositionRow(w) >>] : at \in 1..w, name \in names}

DataNormalizer ==
    UNION {
        {[polos_ativos |-> t, municipios |-> EmptyDF, alunos |-> EmptyDF] :
            t \in RawTables(w, Range(required_cols(polos_columns_map)))}
        \cup {[polos_ativos |-> EmptyDF, municipios |-> t, alunos |-> EmptyDF] :
            t \in RawTables(w, Range(required_cols(municipios_columns_map)))}
        \cup {[polos_ativos |-> EmptyDF, municipios |-> EmptyDF, alunos |-> t] :
            t \in RawTables(w, Range(required_cols(alunos_columns_map)))}
        : w \in 1..MaxWidth}

InitNormalizer == data \in DataNormalizer /\ IdleInit

NextNormalizer == LoadAndProcess

SpecNormalizer == InitNormalizer /\ [][NextNormalizer]_vars

\* the entities whose raw table is not empty, with the map of each
Normalized ==
    {e \in {[raw |-> data.polos_ativos, clean |-> df_clean.polos, map |-> polos_columns_map,
             zeros |-> {"lat", "long"}],
            [raw |-> data.municipios, clean |-> df_clean.municipios,
             map |-> municipios_columns_map,
             zeros |-> {"LAT", "LNG", "DISTANCIA_KM", "TOTAL_ALUNOS"}],
            [raw |-> data.alunos, clean |-> df_clean.alunos, map |-> alunos_columns_map,
             zeros |-> {}]} : ~empty(e.raw)}

\* C9: the normalizer reads columns by position only: whatever the header names of
\* the raw table, the normalizer raises no error and each field of the normalized
\* table is one column holding the values of the raw column at the field's mapped
\* position.
C9_PositionOnly ==
    pc # "loaded" =>
        /\ pc # "error"
        /\ \A e \in Normalized : \A n \in DOMAIN e.map :
              LET idx  == e.map[n][1]
                  name == e.map[n][2]
              IN /\ Cardinality(Positions(e.clean, name)) = 1
                 /\ idx < Len(e.raw.columns) =>
                       \A i \in DOMAIN e.raw.rows :
                           Cell(e.clean, i, name) = e.raw.rows[i][idx + 1]

HighestIndex(columns_map) == columns_map[Len(columns_map)][1]

\* C10: for a non-empty raw table with fewer columns than the highest mapped index,
\* the normalizer raises no error and produces exactly the mapped field names, each
\* missing field filled with an empty string when a text field and with zero when
\* a numeric field.
C10_ShortTableDefaults ==
    pc # "loaded" =>
        \A e \in Normalized :
            Len(e.raw.columns) < HighestIndex(e.map) =>
                /\ pc # "error"
                /\ e.clean.columns = required_cols(e.map)
                /\ \A n \in DOMAIN e.map :
                      e.map[n][1] >= Len(e.raw.columns) =>
                          \A i \in DOMAIN e.clean.rows :
                              e.clean.rows[i][n] = IF e.map[n][2] \in e.zeros
                                                   THEN Int2Num(0) ELSE Str(<<>>)

(***************************************************************************)
(* Distances (SpecDistances): one municipality, its raw distance varying.  *)
(***************************************************************************)
RawDistance == data.municipios.rows[1][11].s

RawNome == data.municipios.rows[1][1].s

\* C6: the numeric cleaner turns "1.234,56" (period thousands separators, comma
\* decimal separator) into 1234.56.
C6_ThousandsAndDecimal ==
    (pc = "processed" /\ RawDistance = <<"1",".","2","3","4",",","5","6">>)
        => Cell(processed_data.municipios, 1, "DISTANCIA_KM") = Num(123456, 100)

\* a raw distance that is blank or holds no digit at all
RawDistanceMissing == \A n \in DOMAIN RawDistance : ~IsDigit(RawDistance[n])

\* C8: a municipality whose raw distance is missing or unparseable is never treated
\* as covered: it is not counted in municipios_cobertos, not counted as within
\* 100 km by the geographic page, and not categorized 'Cobertura Proxima' or
\* 'Cobertura Estendida'.
C8_MissingDistanceNeverCovered ==
    RawDistanceMissing =>
        /\ pc = "coverage" => metrics.municipios_cobertos = Int2Num(0)
        /\ (pc = "geographic" /\ view.stats.shown) => view.stats.municipios_cobertura = 0
        /\ pc = "geographic" =>
              Cell(view.municipios_enhanced, 1, "TIPO_COBERTURA")
                  \notin {Str(<<"Cobertura Proxima">>), Str(<<"Cobertura Estendida">>)}

(***************************************************************************)
(* Coordinates (SpecCoordinates): one campus, its two raw coordinates      *)
(* varying.                                                                *)
(***************************************************************************)
RawLat == data.polos_ativos.rows[1][13].s

RawLong == data.polos_ativos.rows[1][14].s

\* C7 as stated: latitude and longitude of a cleaned campus are either both valid
\* numbers or both missing.
C7_BothOrNeither ==
    pc = "processed" =>
        (isna(Cell(processed_data.polos, 1, "lat")) <=> isna(Cell(processed_data.polos, 1, "long")))

\* the raw string, reading commas as periods and dropping every character that is
\* no digit, period or minus sign, is a decimal number: one optional minus sign in
\* front, at most one period, at least one digit
IsDecimal(raw) ==
    LET kept == SelectSeq(raw, LAMBDA c : IsDigit(c) \/ c \in {".", ",", "-"})
    IN /\ \E n \in DOMAIN kept : IsDigit(kept[n])
       /\ Cardinality({n \in DOMAIN kept : kept[n] \in {".", ","}}) <= 1
       /\ \A n \in DOMAIN kept : kept[n] = "-" => n = 1

\* C7 amended: each of latitude and longitude is, on its own, either a number or
\* missing; it is missing exactly when its own raw string is no decimal number
\* (never zero in its place), so a row can hold one coordinate without the other.
C7_EachNumberOrMissing ==
    pc = "processed" =>
        LET lat  == Cell(processed_data.polos, 1, "lat")
            long == Cell(processed_data.polos, 1, "long")
        IN /\ lat.k \in {"num", "nan"} /\ long.k \in {"num", "nan"}
           /\ isna(lat) <=> ~IsDecimal(RawLat)
           /\ isna(long) <=> ~IsDecimal(RawLong)
           /\ RawLat = <<"1","2",",","5">> => lat = Num(25, 2)
           /\ RawLong = <<"-","2","3",".","5">> => long = Num(-47, 2)

\* a campus with a latitude and no longitude
C7_Witness ==
    /\ pc = "processed"
    /\ Cell(processed_data.polos, 1, "lat") = Num(-47, 2)
    /\ RawLong = <<"x">>
    /\ isna(Cell(processed_data.polos, 1, "long"))

(***************************************************************************)
(* SpecVendas: clean_vendas_data applied to a raw sales table whose rows   *)
(* vary in modality, partnership type, payment date and CPF; the ALUNO     *)
(* cell of row i holds the numeral i.                                      *)
(***************************************************************************)
MaxVendas == 2

VendasHeader ==
    <<"ID", "DATA", "CPF", "ALUNO", "NIVEL", "CURSO", "POLO", "VALOR", "STATUS", "DT PAGTO",
      "FORMA", "PARCELA", "VENDEDOR", "TIPO PARCERIA">>

\* the payment dates of the family, each with the year it parses to (0: it does not parse)
VendasDates == <<
    << <<"1","5","/","0","3","/","2","0","2","1">>, 2021 >>,
    << <<"1","/","2","/","2","0","2","0">>, 2020 >>,
    << <<"3","1","/","1","2","/">> \o NatStr(MaxYear), MaxYear >>,
    << <<"3","1","/","1","2","/","2","0","1","9">>, 2019 >>,
    << <<"0","1","/","0","1","/">> \o NatStr(MaxYear + 1), MaxYear + 1 >>,
    << <<"3","1","/","0","2","/","2","0","2","1">>, 0 >>,
    << <<"2","0","2","1","-","0","3","-","1","5">>, 0 >>,
    << <<" ","1","5","/","0","3","/","2","0","2","1">>, 0 >>,
    << <<>>, 0 >> >>

\* the kinds of row: <<CPF, NIVEL, DT PAGTO, TIPO PARCERIA>>
VendaKinds ==
    {<<<<"1","1">>, <<"Graduacao">>, VendasDates[n][1], <<"Parceiro Polo">>>> :
        n \in DOMAIN VendasDates}
    \cup {<<<<"1","1">>, nivel, VendasDates[1][1], <<"Comercial Interno">>>> :
            nivel \in {<<"Tecnologo">>, <<" ", "Graduacao">>, <<"Mestrado">>, <<>>}}
    \cup {<<<<"1","1">>, <<"Graduacao">>, VendasDates[1][1], <<"Outro">>>>,
          <<<<>>, <<"Graduacao">>, VendasDates[1][1], <<"Parceiro Polo">>>>}

VendaRaw(i, kind) ==
    <<E, E, Str(kind[1]), Str(NatStr(i)), Str(kind[2]), Str(<<"T","I">>), E, E, E,
      Str(kind[3]), E, E, E, Str(kind[4])>>

DataVendas ==
    {[columns |-> VendasHeader, rows |-> [i \in DOMAIN kinds |-> VendaRaw(i, kinds[i])]] :
        kinds \in SeqsUpTo(VendaKinds, MaxVendas)}

InitVendas ==
    /\ pc = "start"
    /\ data = NoData
    /\ processed_data = NoProcessed
    /\ df_clean = NoClean
    /\ df \in DataVendas
    /\ metrics = ZeroMetrics
    /\ view = NoView
    /\ current_year \in {MaxYear - 1, MaxYear}
    /\ response = NoResponse
    /\ IdleCache
    /\ requests = 0
    /\ st = <<>>
    /\ returned = EmptyDF

CleanVendas ==
    /\ pc = "start"
    /\ LET r == clean_vendas_data(df, current_year)
       IN returned' = r.df /\ st' = r.st
    /\ pc' = "done"
    /\ UNCHANGED <<data, processed_data, df_clean, df, metrics, view, current_year,
                   response, requests>>
    /\ UNCHANGED cachevars
    /\ UNCHANGED startup

NextVendas == CleanVendas

SpecVendas == InitVendas /\ [][NextVendas]_vars

\* the year the raw payment date of the family parses to, 0 when it does not parse
ParsedYear(s) ==
    LET n == CHOOSE m \in DOMAIN VendasDates : VendasDates[m][1] = s IN VendasDates[n][2]

\* raw row i meets the four conditions
VendaValid(i) ==
    /\ df.rows[i][5].s \in modalidades_validas
    /\ df.rows[i][14].s \in parcerias_validas
    /\ ParsedYear(df.rows[i][10].s) \in 2020..current_year

\* C11: every row returned by clean_vendas_data has its NIVEL in the modality
\* vocabulary, its TIPO_PARCERIA in the partnership vocabulary, a payment date that
\* parsed and a payment year from 2020 to the current year; every raw row that
\* violates one of these conditions is absent from the result.
C11_VendasRowsValid ==
    pc = "done" =>
        /\ \A k \in DOMAIN returned.rows :
              /\ Cell(returned, k, "NIVEL").s \in modalidades_validas
              /\ Cell(returned, k, "TIPO_PARCERIA").s \in parcerias_validas
              /\ Cell(returned, k, "DT_PAGTO").k = "date"
              /\ Cell(returned, k, "ANO").p \in 2020..current_year
              /\ Cell(returned, k, "ANO").p = Cell(returned, k, "DT_PAGTO").p \div 10000
        /\ \A i \in DOMAIN df.rows :
              ~VendaValid(i) =>
                  \A k \in DOMAIN returned.rows : Cell(returned, k, "ALUNO") # df.rows[i][4]

\* a sale of the current year is kept while a sale with a bad date is dropped
C11_Witness ==
    /\ pc = "done"
    /\ Len(df.rows) = 2
    /\ Len(returned.rows) = 1
    /\ Cell(returned, 1, "ANO") = Int2Num(current_year)
    /\ \E i \in DOMAIN df.rows : ParsedYear(df.rows[i][10].s) \notin 2020..current_year

(***************************************************************************)
(* The migration matrix (SpecAlignment).                                   *)
(***************************************************************************)
Misaligned(t) == {i \in DOMAIN t.rows : Cell(t, i, "POLO") # Cell(t, i, "POLO_MAIS_PROXIMO")}

\* the number of cells of the displayed matrix that count student i
CellsCounting(t, i) ==
    Cardinality({c \in DOMAIN view.matriz_filtrada.values :
                    /\ Cell(t, i, "POLO") = Str(c[1])
                    /\ Cell(t, i, "POLO_MAIS_PROXIMO") = Str(c[2])})

\* C12: the migration matrix counts only misaligned students: each cell (a, b) is
\* the number of misaligned students assigned to campus a whose nearest campus is b,
\* every misaligned student is counted in exactly one cell, no aligned student in any.
C12_MigrationMatrix ==
    pc = "alignment" =>
        LET t == processed_data.alunos
        IN /\ \A c \in DOMAIN view.matriz_filtrada.values :
                 view.matriz_filtrada.values[c] =
                     Cardinality({i \in Misaligned(t) : /\ Cell(t, i, "POLO") = Str(c[1])
                                                        /\ Cell(t, i, "POLO_MAIS_PROXIMO") = Str(c[2])})
           /\ \A i \in DOMAIN t.rows :
                 CellsCounting(t, i) = IF i \in Misaligned(t) THEN 1 ELSE 0

(***************************************************************************)
(* The range of the coverage percentage (SpecCoverage).                    *)
(***************************************************************************)
\* C13: in every result of calculate_coverage_metrics the coverage percentage lies
\* between 0 and 100, the covered count is at most the total count, and the
\* percentage is 0 when no municipality has a non-missing distance > 0.
C13_PercentageBounded ==
    pc = "coverage" =>
        /\ NumLE(Int2Num(0), metrics.percentual_cobertura)
        /\ NumLE(metrics.percentual_cobertura, Int2Num(100))
        /\ NumLE(metrics.municipios_cobertos, metrics.total_municipios)
        /\ ValidSet(processed_data.municipios) = {} =>
              /\ metrics.percentual_cobertura = Int2Num(0)
              /\ metrics.total_municipios = Int2Num(0)

\* two municipalities, neither with a valid distance: the percentage is 0
C13_Witness ==
    /\ pc = "coverage"
    /\ Len(processed_data.municipios.rows) = 2
    /\ Cell(processed_data.municipios, 1, "DISTANCIA_KM") = Int2Num(0)
    /\ isna(Cell(processed_data.municipios, 2, "DISTANCIA_KM"))
    /\ metrics.percentual_cobertura = Int2Num(0)

(***************************************************************************)
(* The numeric fields of a cleaned municipality (SpecDistances).           *)
(***************************************************************************)
RawTotal == data.municipios.rows[1][15].s

\* the raw string, keeping only its digits, periods and commas, is no decimal
\* number: it has no digit, or more than one separator
Unparseable(raw) ==
    \/ \A n \in DOMAIN raw : ~IsDigit(raw[n])
    \/ Cardinality({n \in DOMAIN raw : raw[n] \in {".", ","}}) > 1

\* C14: after clean_municipios_data every DISTANCIA_KM and TOTAL_ALUNOS is a
\* non-missing number >= 0, and a raw value that is empty or unparseable has become
\* exactly 0.
C14_NumericNonNegative ==
    pc = "processed" =>
        LET d == Cell(processed_data.municipios, 1, "DISTANCIA_KM")
            a == Cell(processed_data.municipios, 1, "TOTAL_ALUNOS")
        IN /\ d.k = "num" /\ d.p >= 0 /\ d.q > 0
           /\ a.k = "num" /\ a.p >= 0 /\ a.q > 0
           /\ Unparseable(RawDistance) => d = Int2Num(0)
           /\ Unparseable(RawTotal) => a = Int2Num(0)
           /\ RawDistance = <<"1", ",", "1">> => d = Num(11, 10)

\* a distance written with a minus sign and letters only, and a blank student total
C14_Witness ==
    /\ pc = "processed"
    /\ RawDistance = <<"-", "k">>
    /\ RawTotal = <<>>
    /\ Cell(processed_data.municipios, 1, "DISTANCIA_KM") = Int2Num(0)
    /\ Cell(processed_data.municipios, 1, "TOTAL_ALUNOS") = Int2Num(0)

(***************************************************************************)
(* SpecCoordinatesTwice: _clean_coordinates applied to a table of raw      *)
(* coordinates, then to its own result.  returned is the table before the  *)
(* last application, df the table after it.                                *)
(***************************************************************************)
TwiceCoordStrings == CoordStrings \cup {<<".","0","0","0","0","1">>, <<"0",".","0","0","1">>}

InitCoordinatesTwice ==
    /\ pc = "start"
    /\ data = NoData
    /\ processed_data = NoProcessed
    /\ df_clean = NoClean
    /\ \E lat \in TwiceCoordStrings, long \in {<<"-","4","6",".","6">>, <<"x">>} :
          df = [columns |-> <<"lat", "long">>, rows |-> << <<Str(lat), Str(long)>> >>]
    /\ metrics = ZeroMetrics
    /\ view = NoView
    /\ IdleAux

CleanCoordinates ==
    /\ pc \in {"start", "once"}
    /\ df' = _clean_coordinates(df, "lat", "long")
    /\ returned' = df
    /\ pc' = IF pc = "start" THEN "once" ELSE "twice"
    /\ UNCHANGED <<data, processed_data, df_clean, metrics, view, current_year, response,
                   requests, st>>
    /\ UNCHANGED cachevars
    /\ UNCHANGED startup

NextCoordinatesTwice == CleanCoordinates

SpecCoordinatesTwice == InitCoordinatesTwice /\ [][NextCoordinatesTwice]_vars

\* C15: the coordinate cleaner is idempotent: applied to a column it has already
\* cleaned it leaves every value the same; and an unparseable raw value becomes
\* missing, never zero.
C15_CoordinatesIdempotent ==
    /\ pc = "twice" => df = returned
    /\ pc = "once" =>
          \A j \in 1..2 : ~IsDecimal(returned.rows[1][j].s) => isna(df.rows[1][j])

(***************************************************************************)
(* SpecTextTwice: _clean_text_columns applied to a table of two text       *)
(* columns, then to its own result.  returned is the table before the last *)
(* application, df the table after it.                                     *)
(***************************************************************************)
MaxTextLen == 3

TextStrings ==
    SeqsUpTo({" ", "a", "n"}, MaxTextLen)
    \cup {<<>>, <<" ", "n", "a", "n", " ">>, <<"N", "a", "N">>, <<" ", "a", " ", "b", " ">>}

InitTextTwice ==
    /\ pc = "start"
    /\ data = NoData
    /\ processed_data = NoProcessed
    /\ df_clean = NoClean
    /\ \E cidade \in TextStrings, uf \in {Str(<<"S", "P", " ">>), Str(<<>>), NaN} :
          df = [columns |-> <<"CIDADE", "UF">>, rows |-> << <<Str(cidade), uf>> >>]
    /\ metrics = ZeroMetrics
    /\ view = NoView
    /\ IdleAux

CleanTextColumns ==
    /\ pc \in {"start", "once"}
    /\ df' = _clean_text_columns(df)
    /\ returned' = df
    /\ pc' = IF pc = "start" THEN "once" ELSE "twice"
    /\ UNCHANGED <<data, processed_data, df_clean, metrics, view, current_year, response,
                   requests, st>>
    /\ UNCHANGED cachevars
    /\ UNCHANGED startup

NextTextTwice == CleanTextColumns

SpecTextTwice == InitTextTwice /\ [][NextTextTwice]_vars

Spaces(s) == \A n \in DOMAIN s : s[n] = " "

\* text is raw without the spaces at its two ends
Trimmed(raw, text) ==
    /\ text # <<>> /\ Head(text) # " " /\ text[Len(text)] # " "
    /\ \E a \in 0..Len(raw) :
          /\ a + Len(text) <= Len(raw)
          /\ Spaces(SubSeq(raw, 1, a))
          /\ SubSeq(raw, a + 1, a + Len(text)) = text
          /\ Spaces(SubSeq(raw, a + Len(text) + 1, Len(raw)))

\* the cell cleaned is what the claim says of the raw cell
CleanedAs(raw, cleaned) ==
    IF isna(raw) \/ Spaces(raw.s) \/ Trimmed(raw.s, <<"n", "a", "n">>)
    THEN isna(cleaned)
    ELSE cleaned.k = "str" /\ Trimmed(raw.s, cleaned.s)

\* C16: the text cleaner trims every text cell and turns the empty string and the
\* literal 'nan' into the missing value, and applying it again to its own output
\* changes nothing.
C16_TextIdempotent ==
    /\ pc = "once" =>
          \A j \in 1..2 : IsObjectCol(returned, j) => CleanedAs(returned.rows[1][j], df.rows[1][j])
    /\ pc = "twice" => df = returned

\* after two applications: a trimmed city beside a state that was trimmed too
C16_Witness ==
    /\ pc = "twice"
    /\ df.rows[1] = <<Str(<<"a", " ", "b">>), Str(<<"S", "P">>)>>
    /\ returned = df

(***************************************************************************)
(* The text fields of the cleaned tables (SpecDistances).                  *)
(***************************************************************************)
\* a text value that is not empty, has no space at either end and is not 'nan'
CleanTextValue(s) ==
    /\ s # <<>> /\ Head(s) # " " /\ s[Len(s)] # " "
    /\ s # <<"n", "a", "n">>

TextCellsClean(t) ==
    \A i \in DOMAIN t.rows : \A j \in DOMAIN t.columns :
        t.rows[i][j].k = "str" => CleanTextValue(t.rows[i][j].s)

\* C17: in the output of every entity cleaner every value of every text field is
\* missing or a non-empty string without leading or trailing whitespace and
\* different from 'nan'; in particular the municipality name and state are trimmed.
C17_TextFieldsClean ==
    pc = "processed" =>
        /\ TextCellsClean(processed_data.polos)
        /\ TextCellsClean(processed_data.municipios)
        /\ TextCellsClean(processed_data.alunos)

(***************************************************************************)
(* SpecMergeGuard: merge_alunos_municipios on tables that may be empty or  *)
(* lack a join column.  Each table has a sub-sequence of its columns and   *)
(* up to MaxGuardRows rows.                                                *)
(***************************************************************************)
MaxGuardRows == 1

RECURSIVE SubSeqs(_)
SubSeqs(s) ==
    IF s = <<>> THEN {<<>>}
    ELSE LET rest == SubSeqs(Tail(s))
         IN rest \cup {<<Head(s)>> \o r : r \in rest}

GuardValue(name) ==
    CASE name = "NOME"           -> Str(<<"x">>)
      [] name = "CIDADE"         -> Str(<<"A">>)
      [] name = "MUNICIPIO_IBGE" -> Str(<<"A">>)
      [] name = "UF"             -> Str(<<"S", "P">>)
      [] OTHER                   -> Int2Num(1)

GuardTables(columns) ==
    {[columns |-> c, rows |-> [i \in 1..n |-> [j \in DOMAIN c |-> GuardValue(c[j])]]] :
        c \in SubSeqs(columns), n \in 0..MaxGuardRows}

InitMergeGuard ==
    /\ pc = "cleaned"
    /\ data = NoData
    /\ \E alunos_df \in GuardTables(<<"NOME", "CIDADE", "UF">>),
          municipios_df \in GuardTables(municipios_cols) :
          processed_data = [polos |-> EmptyDF, municipios |-> municipios_df, alunos |-> alunos_df]
    /\ df_clean = NoClean
    /\ df = EmptyDF
    /\ metrics = ZeroMetrics
    /\ view = NoView
    /\ IdleAux

\* app.py lines 77-80: the students are merged with the municipalities
MergeAlunosMunicipios ==
    /\ pc = "cleaned"
    /\ processed_data' = [processed_data EXCEPT
           !.alunos = merge_alunos_municipios(processed_data.alunos, processed_data.municipios)]
    /\ returned' = processed_data.alunos
    /\ pc' = "merged"
    /\ UNCHANGED <<data, df_clean, df, metrics, view, current_year, response, requests, st>>
    /\ UNCHANGED cachevars
    /\ UNCHANGED startup

NextMergeGuard == MergeAlunosMunicipios

SpecMergeGuard == InitMergeGuard /\ [][NextMergeGuard]_vars

LacksJoinColumn(alunos_df, municipios_df) ==
    \/ \E n \in DOMAIN alunos_cols : ~HasCol(alunos_df, alunos_cols[n])
    \/ \E n \in DOMAIN municipios_cols : ~HasCol(municipios_df, municipios_cols[n])

\* C18: when either table is empty or lacks a required join column,
\* merge_alunos_municipios returns the original student table unchanged.
C18_MergeGuard ==
    pc = "merged" =>
        (empty(returned) \/ empty(processed_data.municipios)
            \/ LacksJoinColumn(returned, processed_data.municipios)
         => processed_data.alunos = returned)

C18_Witness ==
    /\ pc = "merged"
    /\ ~empty(returned) /\ ~empty(processed_data.municipios)
    /\ HasCol(returned, "CIDADE") /\ HasCol(returned, "UF")
    /\ ~HasCol(processed_data.municipios, "LAT")
    /\ HasCol(processed_data.municipios, "MUNICIPIO_IBGE")
    /\ processed_data.alunos = returned

(***************************************************************************)
(* The covered municipalities of the two pages (SpecDistances).            *)
(***************************************************************************)
\* the number of municipalities of the cleaned table whose distance is at most 100 km
Within100 ==
    Cardinality({i \in DOMAIN processed_data.municipios.rows :
        LET d == Cell(processed_data.municipios, i, "DISTANCIA_KM")
        IN d.k = "num" /\ NumLE(d, Int2Num(100))})

\* C19: a municipality is covered exactly when its distance is at most 100 km:
\* municipios_cobertos of calculate_coverage_metrics and the count of the geographic
\* page are both the number of municipalities with DISTANCIA_KM <= 100.
C19_SameCoveredCount ==
    /\ pc = "coverage" => metrics.municipios_cobertos = Int2Num(Within100)
    /\ (pc = "geographic" /\ view.stats.shown) => view.stats.municipios_cobertura = Within100

(***************************************************************************)
(* SpecLoader: load_sheet_data.  The response of the one request is either *)
(* a failure or the 'values' of the sheet: a header of column names and    *)
(* rows of cells.                                                          *)
(***************************************************************************)
MaxHeaders == 3

MaxRowLen == 2

MaxSheetRows == 1

Failures == {"http_error", "network_error", "timeout", "malformed_json"}

Max(a, b) == IF a >= b THEN a ELSE b

RECURSIVE MaxLen(_)
MaxLen(rows) == IF rows = <<>> THEN 0 ELSE Max(Len(Head(rows)), MaxLen(Tail(rows)))

\* lines 43-44: the header is padded with Col_N names
PaddedHeaders(headers, max_cols) ==
    [j \in 1..max_cols |-> IF j <= Len(headers) THEN headers[j] ELSE "Col_" \o ToString(j - 1)]

\* lines 47-56: a header seen before gets the number of its earlier occurrences as a suffix
UniqueHeaders(headers) ==
    [j \in DOMAIN headers |->
        LET seen == Cardinality({n \in 1..(j - 1) : headers[n] = headers[j]})
        IN IF seen > 0 THEN headers[j] \o "_" \o ToString(seen) ELSE headers[j]]

\* lines 59-65: a short row is padded with empty strings
NormalizedRows(rows, max_cols) ==
    [i \in DOMAIN rows |-> [j \in 1..max_cols |-> IF j <= Len(rows[i]) THEN rows[i][j] ELSE Str(<<>>)]]

\* df.dropna(how='all')
dropna_all(t) ==
    [t EXCEPT !.rows = SelectSeq(t.rows, LAMBDA row : \E j \in DOMAIN row : notna(row[j]))]

\* lines 25-73: the table built from the values of the response
TableOfValues(values) ==
    IF values = <<>> THEN EmptyDF
    ELSE LET headers == Head(values)
             rows    == Tail(values)
         IN IF rows = <<>> THEN EmptyDF
            ELSE LET max_cols == Max(Len(headers), MaxLen(rows))
                 IN IF max_cols = 0
                    THEN [columns |-> <<>>, rows |-> rows]
                    ELSE dropna_all([columns |-> UniqueHeaders(PaddedHeaders(headers, max_cols)),
                                     rows    |-> NormalizedRows(rows, max_cols)])

\* a faulty variant of load_sheet_data: a failed request is tried once more
load_sheet_data_Retry(resp) ==
    IF resp.outcome \in Failures
    THEN [df |-> EmptyDF, st |-> <<"error">>, requests |-> 2]
    ELSE [df |-> TableOfValues(resp.values), st |-> <<>>, requests |-> 1]

\* one request; any exception is reported with st.error and an empty table returned
load_sheet_data(resp) ==
    IF resp.outcome \in Failures
    THEN [df |-> EmptyDF, st |-> <<"error">>, requests |-> 1]
    ELSE [df |-> TableOfValues(resp.values), st |-> <<>>, requests |-> 1]

SheetHeaders == {<<>>} \cup SeqsUpTo({"A", "A_1"}, MaxHeaders)

SheetRows == {<<>>} \cup SeqsUpTo({Str(<<>>), Str(<<"x">>)}, MaxRowLen)

SheetValues ==
    {<<>>} \cup {<<h>> \o rows : h \in SheetHeaders,
                                 rows \in {<<>>} \cup SeqsUpTo(SheetRows, MaxSheetRows)}

Responses ==
    {[outcome |-> o, values |-> <<>>] : o \in Failures}
        \cup {[outcome |-> "ok", values |-> v] : v \in SheetValues}

InitLoader ==
    /\ pc = "request"
    /\ data = NoData
    /\ processed_data = NoProcessed
    /\ df_clean = NoClean
    /\ df = EmptyDF
    /\ metrics = ZeroMetrics
    /\ view = NoView
    /\ current_year = MaxYear
    /\ response \in Responses
    /\ IdleCache
    /\ requests = 0
    /\ st = <<>>
    /\ returned = EmptyDF

LoadSheetData ==
    /\ pc = "request"
    /\ LET r == load_sheet_data(response)
       IN /\ returned' = r.df
          /\ st' = st \o r.st
          /\ requests' = requests + r.requests
    /\ pc' = "returned"
    /\ UNCHANGED <<data, processed_data, df_clean, df, metrics, view, current_year, response>>
    /\ UNCHANGED cachevars
    /\ UNCHANGED startup

NextLoader == LoadSheetData

SpecLoader == InitLoader /\ [][NextLoader]_vars

\* C20: when the remote request fails (HTTP error, network error, timeout or malformed
\* JSON), load_sheet_data shows an error message and returns an empty table after
\* exactly one request attempt.
C20_FailureHandled ==
    (pc = "returned" /\ response.outcome \in Failures) =>
        /\ returned = EmptyDF
        /\ st = <<"error">>
        /\ requests = 1

C20_Witness ==
    /\ pc = "returned"
    /\ response.outcome = "timeout"
    /\ returned = EmptyDF /\ st = <<"error">> /\ requests = 1

(***************************************************************************)
(* The population loader: fetch_population_data tries the v3 endpoint and  *)
(* then the v2 endpoint.  The answer of an endpoint is a failure or 'ok'   *)
(* with the 'resultados' of the body: <<>> when the body is empty or has   *)
(* none, otherwise a one-element sequence holding the series, each item    *)
(* [id, nome, serie] with serie the text of the 2022 population.           *)
(***************************************************************************)
MaxSeries == 1

urls_to_try == <<"v3", "v2">>

RequestFailures ==
    {"http_500", "http_error", "connection_error", "timeout", "request_exception",
     "malformed_json"}

\* the position of the first c in s at or after n, 0 when there is none
RECURSIVE Find(_, _, _)
Find(s, c, n) ==
    IF n > Len(s) THEN 0 ELSE IF s[n] = c THEN n ELSE Find(s, c, n + 1)

\* the position of the last c in s, 0 when there is none
RECURSIVE FindLast(_, _, _)
FindLast(s, c, n) ==
    IF n < 1 THEN 0 ELSE IF s[n] = c THEN n ELSE FindLast(s, c, n - 1)

\* the position of the first white space followed by "(" with a ")" after it
RECURSIVE FindSpaceParen(_, _)
FindSpaceParen(s, n) ==
    IF n + 1 > Len(s) THEN 0
    ELSE IF s[n] = " " /\ s[n + 1] = "(" /\ FindLast(s, ")", Len(s)) > n + 1 THEN n
    ELSE FindSpaceParen(s, n + 1)

\* lines 61-62: re.search(r'\((.*?)\)', nome), 'N/A' without a match
uf_of(nome) ==
    LET open  == Find(nome, "(", 1)
        close == IF open = 0 THEN 0 ELSE Find(nome, ")", open + 1)
    IN IF close = 0 THEN <<"N", "/", "A">> ELSE SubSeq(nome, open + 1, close - 1)

\* lines 65-66: re.sub(r'\s\(.*\)', '', nome).strip()
nome_municipio_clean(nome) ==
    LET from == FindSpaceParen(nome, 1)
    IN IF from = 0 THEN strip(nome)
       ELSE strip(SubSeq(nome, 1, from - 1)
                    \o SubSeq(nome, FindLast(nome, ")", Len(nome)) + 1, Len(nome)))

\* line 58: int(populacao_str) raises on a text that is not a whole number
IntRaises(serie) == serie # <<>> /\ ~AllDigits(strip(serie))

populacao(serie) == IF serie = <<>> THEN Int2Num(0) ELSE Int2Num(DigitsVal(strip(serie)))

population_columns == <<"codigo_ibge_completo", "MUNICIPIO_IBGE_CLEAN", "UF", "POPULACAO_2022">>

\* lines 43-77: the table of the series; pd.DataFrame([]) has no column
df_pop(series) ==
    IF series = <<>> THEN EmptyDF
    ELSE [columns |-> population_columns,
          rows    |-> [i \in DOMAIN series |->
                         << Str(series[i].id), Str(upper(nome_municipio_clean(series[i].nome))),
                            Str(uf_of(series[i].nome)), populacao(series[i].serie) >>]]

\* lines 30-105: one pass of the loop: the request, and what is shown and returned
Attempt(answer) ==
    IF answer.outcome \in RequestFailures
    THEN [returns |-> FALSE, df |-> EmptyDF, st |-> <<"info", "error">>]
    ELSE IF answer.resultados = <<>>
    THEN [returns |-> FALSE, df |-> EmptyDF, st |-> <<"info", "warning">>]
    ELSE IF \E i \in DOMAIN answer.resultados[1] : IntRaises(answer.resultados[1][i].serie)
    THEN [returns |-> FALSE, df |-> EmptyDF, st |-> <<"info", "error">>]
    ELSE [returns |-> TRUE, df |-> df_pop(answer.resultados[1]), st |-> <<"info", "success">>]

fetch_population_data(resp) ==
    LET v3 == Attempt(resp.v3)
        v2 == Attempt(resp.v2)
    IN IF v3.returns THEN [df |-> v3.df, st |-> v3.st, urls |-> <<"v3">>]
       ELSE IF v2.returns THEN [df |-> v2.df, st |-> v3.st \o v2.st, urls |-> <<"v3", "v2">>]
       ELSE [df |-> EmptyDF, st |-> v3.st \o v2.st \o <<"error">>, urls |-> <<"v3", "v2">>]

(***************************************************************************)
(* SpecPopulation: one call of fetch_population_data, the answers of the   *)
(* two endpoints varying.                                                  *)
(***************************************************************************)
SeriesItems ==
    {[id |-> <<"1">>, nome |-> nome, serie |-> serie] :
        nome \in {<<"a", " ", "(", "S", "P", ")">>, <<"b">>},
        serie \in {<<"1", "0">>, <<>>, <<"x">>}}

Answers ==
    {[outcome |-> o, resultados |-> <<>>] : o \in RequestFailures \cup {"ok"}}
        \cup {[outcome |-> "ok", resultados |-> <<series>>] :
                 series \in {<<>>} \cup SeqsUpTo(SeriesItems, MaxSeries)}

InitPopulation ==
    /\ pc = "request"
    /\ data = NoData
    /\ processed_data = NoProcessed
    /\ df_clean = NoClean
    /\ df = EmptyDF
    /\ metrics = ZeroMetrics
    /\ view = NoView
    /\ current_year = MaxYear
    /\ \E v3 \in Answers, v2 \in Answers : response = [v3 |-> v3, v2 |-> v2]
    /\ requests = 0
    /\ st = <<>>
    /\ returned = EmptyDF
    /\ IdleCache

FetchPopulationData ==
    /\ pc = "request"
    /\ LET r == fetch_population_data(response)
       IN /\ returned' = r.df
          /\ st' = r.st
          /\ urls' = urls \o r.urls
          /\ requests' = requests + Len(r.urls)
    /\ pc' = "returned"
    /\ UNCHANGED <<data, processed_data, df_clean, df, metrics, view, current_year, response,
                   cache, now, args>>
    /\ UNCHANGED startup

NextPopulation == FetchPopulationData

SpecPopulation == InitPopulation /\ [][NextPopulation]_vars

\* an attempt fails: the request fails, the body has no result, or it cannot be processed
AttemptFails(answer) ==
    \/ answer.outcome # "ok"
    \/ answer.resultados = <<>>
    \/ \E i \in DOMAIN answer.resultados[1] :
          answer.resultados[1][i].serie \notin {<<>>, <<"1", "0">>}

\* C22: fetch_population_data requests v3 first and v2 only if the v3 attempt failed,
\* at most once each, returns the first successful result, and returns an empty table
\* if and only if both attempts fail.
C22_FallbackOrder ==
    pc = "returned" =>
        /\ urls \in {<<"v3">>, <<"v3", "v2">>}
        /\ urls = <<"v3", "v2">> <=> AttemptFails(response.v3)
        /\ empty(returned) <=> (AttemptFails(response.v3) /\ AttemptFails(response.v2))

(***************************************************************************)
(* SpecCache: the result cache of st.cache_data around load_sheet_data     *)
(* (ttl 300 s) and fetch_population_data (ttl one week).  An entry is kept *)
(* under the function and its arguments, with the time it was stored, the  *)
(* value returned and the messages shown, which a later hit replays.       *)
(***************************************************************************)
ttl_load_sheet_data == 300

ttl_fetch_population_data == 604800

MaxRequests == 3

\* the instants at which the application is rendered
Instants == {0, 200, 400, 604600, 604800, 605000}

\* the arguments of the calls of load_all_data for the campuses and the municipalities
SheetArgs ==
    {<<"load_sheet_data", "API_KEY", "SHEET_ID", "polos_ativos">>,
     <<"load_sheet_data", "API_KEY", "SHEET_ID", "municipios">>}

PopulationArgs == <<"fetch_population_data">>

\* a faulty variant of Fresh: an entry never expires
Fresh_NoExpiry(entries, key, time, ttl) == key \in DOMAIN entries

\* the cache holds an entry of the key that has not expired
Fresh(entries, key, time, ttl) ==
    key \in DOMAIN entries /\ time - entries[key].at < ttl

\* a faulty variant of Store: an empty table is not kept
Store_OnlySuccess(entries, key, entry) ==
    IF entry.value = [columns |-> <<>>, rows |-> <<>>] THEN entries
    ELSE [k \in DOMAIN entries \cup {key} |-> IF k = key THEN entry ELSE entries[k]]

Store(entries, key, entry) ==
    [k \in DOMAIN entries \cup {key} |-> IF k = key THEN entry ELSE entries[k]]

CachedSheetResponses ==
    {[outcome |-> "timeout", values |-> <<>>],
     [outcome |-> "ok", values |-> << <<"A">>, <<Str(<<"x">>)>> >>]}

CachedPopulationResponses ==
    {[v3 |-> [outcome |-> "http_500", resultados |-> <<>>],
      v2 |-> [outcome |-> "timeout", resultados |-> <<>>]],
     [v3 |-> [outcome |-> "ok",
              resultados |-> << << [id |-> <<"1">>, nome |-> <<"b">>, serie |-> <<"1", "0">>] >> >>],
      v2 |-> [outcome |-> "timeout", resultados |-> <<>>]]}

InitCache ==
    /\ pc = "start"
    /\ data = NoData
    /\ processed_data = NoProcessed
    /\ df_clean = NoClean
    /\ df = EmptyDF
    /\ metrics = ZeroMetrics
    /\ view = NoView
    /\ IdleAux

\* a call of the cached load_sheet_data
CachedLoadSheetData ==
    \E key \in SheetArgs :
        /\ args' = key
        /\ IF Fresh(cache, key, now, ttl_load_sheet_data)
           THEN /\ returned' = cache[key].value
                /\ st' = cache[key].st
                /\ pc' = "hit"
                /\ UNCHANGED <<cache, requests, response>>
           ELSE /\ requests < MaxRequests
                /\ \E resp \in CachedSheetResponses :
                      LET r == load_sheet_data(resp)
                      IN /\ response' = resp
                         /\ returned' = r.df
                         /\ st' = r.st
                         /\ requests' = requests + r.requests
                         /\ cache' = Store(cache, key, [at |-> now, value |-> r.df, st |-> r.st])
                /\ pc' = "miss"
        /\ UNCHANGED <<data, processed_data, df_clean, df, metrics, view, current_year, now, urls>>
        /\ UNCHANGED startup

\* a call of the cached fetch_population_data
CachedFetchPopulationData ==
    /\ args' = PopulationArgs
    /\ IF Fresh(cache, PopulationArgs, now, ttl_fetch_population_data)
       THEN /\ returned' = cache[PopulationArgs].value
            /\ st' = cache[PopulationArgs].st
            /\ pc' = "hit"
            /\ UNCHANGED <<cache, requests, response, urls>>
       ELSE /\ requests < MaxRequests
            /\ \E resp \in CachedPopulationResponses :
                  LET r == fetch_population_data(resp)
                  IN /\ response' = resp
                     /\ returned' = r.df
                     /\ st' = r.st
                     /\ urls' = r.urls
                     /\ requests' = requests + Len(r.urls)
                     /\ cache' = Store(cache, PopulationArgs,
                                       [at |-> now, value |-> r.df, st |-> r.st])
            /\ pc' = "miss"
    /\ UNCHANGED <<data, processed_data, df_clean, df, metrics, view, current_year, now>>
    /\ UNCHANGED startup

\* time passes between two renders
Tick ==
    /\ \E later \in Instants : later > now /\ now' = later
    /\ UNCHANGED <<pc, data, processed_data, df_clean, df, metrics, view, current_year,
                   response, requests, st, returned, cache, args, urls>>
    /\ UNCHANGED startup

NextCache == CachedLoadSheetData \/ CachedFetchPopulationData \/ Tick

SpecCache == InitCache /\ [][NextCache]_vars

\* C21: a call of load_sheet_data with arguments cached less than 300 seconds ago returns
\* the cached table without a request, a call after that makes a new request, calls with
\* other arguments leave an entry alone, and no step removes or changes an unexpired entry.
C21_CachePerArguments ==
    [][\A key \in SheetArgs :
          LET cached == key \in DOMAIN cache /\ now - cache[key].at < 300
              called == now' = now /\ args' = key
          IN /\ (called /\ cached) =>
                    /\ returned' = cache[key].value
                    /\ requests' = requests
                    /\ cache' = cache
             /\ (called /\ ~cached) =>
                    /\ requests' = requests + 1
                    /\ cache'[key].at = now /\ cache'[key].value = returned'
             /\ (key \in DOMAIN cache /\ (cached \/ ~called)) =>
                    key \in DOMAIN cache' /\ cache'[key] = cache[key]]_vars

C21_Witness ==
    /\ pc = "hit"
    /\ args = <<"load_sheet_data", "API_KEY", "SHEET_ID", "polos_ativos">>
    /\ now = 200 /\ cache[args].at = 0
    /\ requests = 2
    /\ <<"load_sheet_data", "API_KEY", "SHEET_ID", "municipios">> \in DOMAIN cache
    /\ returned = cache[args].value /\ ~empty(returned)
    /\ cache[<<"load_sheet_data", "API_KEY", "SHEET_ID", "municipios">>].value = EmptyDF

\* the last call made a request that failed and returned an empty table
FailedFetch == pc = "miss" /\ returned = EmptyDF /\ st # <<>> /\ st[Len(st)] = "error"

\* C27: the empty table of a failed fetch is cached like a successful result: before
\* the TTL (300 s for load_sheet_data, one week for fetch_population_data) expires a
\* call returns the cached empty table without a request, and the first call after
\* expiry makes a new request.
C27_FailureCached ==
    /\ [](FailedFetch => (args \in DOMAIN cache /\ cache[args].value = EmptyDF))
    /\ [][\A key \in SheetArgs \cup {PopulationArgs} :
             LET ttl    == IF key = PopulationArgs THEN 604800 ELSE 300
                 failed == /\ key \in DOMAIN cache /\ cache[key].value = EmptyDF
                           /\ cache[key].st # <<>> /\ cache[key].st[Len(cache[key].st)] = "error"
                 called == now' = now /\ args' = key
             IN /\ (called /\ failed /\ now - cache[key].at < ttl) =>
                       returned' = EmptyDF /\ requests' = requests /\ urls' = urls
                /\ (called /\ failed /\ now - cache[key].at >= ttl) =>
                       requests' > requests /\ cache'[key].at = now]_vars

C27_Witness ==
    /\ pc = "hit"
    /\ args = PopulationArgs
    /\ now = 604600 /\ cache[args].at = 0
    /\ returned = EmptyDF /\ st[Len(st)] = "error"
    /\ requests = 2

(***************************************************************************)
(* SpecConfig: the import of config.py, each of the six variables absent,  *)
(* empty or set.                                                           *)
(***************************************************************************)
InitConfig ==
    /\ pc = "start"
    /\ data = NoData
    /\ processed_data = NoProcessed
    /\ df_clean = NoClean
    /\ df = EmptyDF
    /\ metrics = ZeroMetrics
    /\ view = NoView
    /\ current_year = MaxYear
    /\ response = NoResponse
    /\ requests = 0
    /\ st = <<>>
    /\ returned = EmptyDF
    /\ cache = <<>> /\ now = 0 /\ args = <<>> /\ urls = <<>>
    /\ environ \in [Range(env_names) -> {None, Str(<<>>), Str(<<"k">>)}]
    /\ GOOGLE_SHEETS_CONFIG = NoConfig
    /\ raised = NoError

ImportConfig ==
    /\ pc = "start"
    /\ LET n == FirstRaising(environ, 1)
       IN IF n > 0
          THEN /\ raised' = [type |-> "ValueError", name |-> env_names[n]]
               /\ GOOGLE_SHEETS_CONFIG' = NoConfig
               /\ pc' = "failed"
          ELSE /\ raised' = NoError
               /\ GOOGLE_SHEETS_CONFIG' = ConfigOf(environ)
               /\ pc' = "imported"
    /\ UNCHANGED <<data, processed_data, df_clean, df, metrics, view, current_year, response,
                   requests, st, returned, environ>>
    /\ UNCHANGED cachevars

NextConfig == ImportConfig

SpecConfig == InitConfig /\ [][NextConfig]_vars

Absent == {n \in DOMAIN env_names : environ[env_names[n]] = None}

\* C23: when one of the six variables is absent the import raises a ValueError naming
\* the first absent variable in lookup order and produces no configuration; when all
\* six are present it succeeds.
C23_MissingVariableFatal ==
    pc # "start" =>
        IF Absent # {}
        THEN /\ pc = "failed"
             /\ raised.type = "ValueError"
             /\ \E n \in Absent : /\ raised.name = env_names[n]
                                  /\ \A m \in Absent : n <= m
             /\ GOOGLE_SHEETS_CONFIG = NoConfig
        ELSE /\ pc = "imported"
             /\ raised = NoError
             /\ GOOGLE_SHEETS_CONFIG # NoConfig
             /\ GOOGLE_SHEETS_CONFIG.planilha_alunos.SHEET_ID
                    = environ["GOOGLE_SHEETS_ALUNOS_SHEET_ID"]

C23_Witness ==
    /\ pc = "failed"
    /\ Absent = {4, 5}
    /\ raised = [type |-> "ValueError", name |-> "GOOGLE_SHEETS_VENDAS_SHEET_ID"]
    /\ GOOGLE_SHEETS_CONFIG = NoConfig

(***************************************************************************)
(* SpecInsufficient: the coverage page and the alignment page on tables    *)
(* that may lack a required column.                                        *)
(***************************************************************************)
InsufficientMunicipios ==
    {[columns |-> <<"DISTANCIA_KM", "TOTAL_ALUNOS">>, rows |-> r] :
        r \in SeqsUpTo({<<d, Int2Num(5)>> : d \in {Int2Num(0), Int2Num(50), Int2Num(150)}},
                       MaxMergeRows)}
      \cup {[columns |-> <<"TOTAL_ALUNOS">>, rows |-> r] :
              r \in SeqsUpTo({<<Int2Num(5)>>}, MaxMergeRows)}

InsufficientAlunos ==
    {EmptyDF}
      \cup {[columns |-> c,
             rows |-> << [j \in DOMAIN c |->
                            IF c[j] = "POLO" THEN Str(<<"P1">>) ELSE Str(proximo)] >>] :
              c \in SubSeqs(<<"POLO", "POLO_MAIS_PROXIMO">>) \ {<<>>},
              proximo \in {<<"P1">>, <<"P2">>}}

InitInsufficient ==
    /\ IdleAux
    /\ pc = "processed"
    /\ data = NoData
    /\ \E m \in InsufficientMunicipios, a \in InsufficientAlunos :
          processed_data = [polos |-> OnePolo(<<"A">>), municipios |-> m, alunos |-> a]
    /\ df_clean = NoClean
    /\ df = EmptyDF
    /\ metrics = ZeroMetrics
    /\ view = NoView

\* pages/alignment_analysis.py render, lines 16-19: without students or without one of
\* the two campus columns a warning is shown and nothing is computed
AlignmentUnavailable ==
    /\ pc = "processed"
    /\ ~(/\ ~empty(processed_data.alunos)
         /\ HasCol(processed_data.alunos, "POLO")
         /\ HasCol(processed_data.alunos, "POLO_MAIS_PROXIMO"))
    /\ st' = <<"warning">>
    /\ view' = [NoView EXCEPT !.page = "alignment"]
    /\ pc' = "unavailable"
    /\ UNCHANGED <<data, processed_data, df_clean, df, metrics, current_year, response,
                   requests, returned>>
    /\ UNCHANGED cachevars
    /\ UNCHANGED startup

NextInsufficient == CoveragePage \/ AlignmentPage \/ AlignmentUnavailable

SpecInsufficient == InitInsufficient /\ [][NextInsufficient]_vars

\* C24: a table lacking a required column raises nothing and yields an outcome the
\* caller can tell apart from a computed result: the metrics of a municipality table
\* without DISTANCIA_KM differ from those of every table with it, and the alignment
\* page without POLO or POLO_MAIS_PROXIMO shows a warning and computes no metric.
C24_InsufficientDataSignal ==
    /\ pc = "coverage" =>
          (metrics = ZeroMetrics <=> ~HasCol(processed_data.municipios, "DISTANCIA_KM"))
    /\ pc = "unavailable" => (st = <<"warning">> /\ view.alignment = NoAlignment)
    /\ pc = "alignment" => st = <<>>

(***************************************************************************)
(* The campuses of the displayed migration matrix (SpecAlignment).  With   *)
(* at most TopPolos campuses every origin and every destination of a       *)
(* misaligned student is among the most frequent ones.                     *)
(***************************************************************************)
TopOrigins(t) ==
    {Cell(t, i, "POLO").s : i \in {n \in Misaligned(t) : notna(Cell(t, n, "POLO"))}}

TopDestinations(t) ==
    {Cell(t, i, "POLO_MAIS_PROXIMO").s :
        i \in {n \in Misaligned(t) : notna(Cell(t, n, "POLO_MAIS_PROXIMO"))}}

\* C25: the displayed migration matrix keeps exactly the rows and columns of the
\* campuses in the union of the ten most frequent origins and the ten most frequent
\* destinations among misaligned students, so every such origin is a row and every
\* such destination a column, and the alignment statistics are those of all students.
C25_TopPolosMatrix ==
    (pc = "alignment" /\ view.matriz_filtrada.shown) =>
        LET t == processed_data.alunos
            polos_relevantes == TopOrigins(t) \cup TopDestinations(t)
        IN /\ view.matriz_filtrada.index \subseteq polos_relevantes
           /\ view.matriz_filtrada.columns \subseteq polos_relevantes
           /\ TopOrigins(t) \subseteq view.matriz_filtrada.index
           /\ TopDestinations(t) \subseteq view.matriz_filtrada.columns
           /\ view.alignment = AlignmentMetrics(t)

(***************************************************************************)
(* SpecTemPolo: the has-campus flag of enhance_municipal_data_for_coverage *)
(* on the geographic page, the campus city and the municipality names and  *)
(* states varying.                                                         *)
(***************************************************************************)
TemPoloPolos ==
    {OnePolo(<<"A">>), OnePolo(<<"a", " ">>),
     [OnePolo(<<"A">>) EXCEPT !.rows[1][4] = NaN],
     [columns |-> <<"UNIDADE", "UF">>, rows |-> << <<Str(<<"P","1">>), Str(<<"S","P">>)>> >>]}

TemPoloMunicipios ==
    {[columns |-> <<"MUNICIPIO_IBGE", "UF", "DISTANCIA_KM", "TOTAL_ALUNOS">>, rows |-> r] :
        r \in SeqsUpTo({<<Str(nome), Str(uf), Int2Num(60), Int2Num(5)>> :
                           nome \in {<<"A">>, <<" ", "a">>, <<"B">>},
                           uf \in {<<"S","P">>, <<"R","J">>}},
                       MaxMergeRows)}

InitTemPolo ==
    /\ IdleAux
    /\ pc = "processed"
    /\ data = NoData
    /\ \E p \in TemPoloPolos, m \in TemPoloMunicipios :
          processed_data = [polos |-> p, municipios |-> m, alunos |-> EmptyDF]
    /\ df_clean = NoClean
    /\ df = EmptyDF
    /\ metrics = ZeroMetrics
    /\ view = NoView

NextTemPolo == GeographicPage

SpecTemPolo == InitTemPolo /\ [][NextTemPolo]_vars

\* the name of municipality i, uppercased and trimmed, is that of a campus city
SameNameAsCampus(i) ==
    /\ HasCol(processed_data.polos, "CIDADE")
    /\ \E j \in DOMAIN processed_data.polos.rows :
          /\ Cell(processed_data.polos, j, "CIDADE").k = "str"
          /\ strip(upper(Cell(processed_data.municipios, i, "MUNICIPIO_IBGE").s))
                = strip(upper(Cell(processed_data.polos, j, "CIDADE").s))

\* C26: TEM_POLO of a municipality is true exactly when its name, uppercased and
\* trimmed, equals the uppercased and trimmed city of at least one campus, whatever
\* the states, and false for every municipality when the campuses have no city column.
C26_TemPolo ==
    pc = "geographic" =>
        /\ HasCol(view.municipios_enhanced, "TEM_POLO")
        /\ \A i \in DOMAIN view.municipios_enhanced.rows :
              Cell(view.municipios_enhanced, i, "TEM_POLO") = BoolCell(SameNameAsCampus(i))

C26_Witness ==
    /\ pc = "geographic"
    /\ HasCol(processed_data.polos, "CIDADE")
    /\ Cell(processed_data.polos, 1, "CIDADE") = Str(<<"a", " ">>)
    /\ Cell(processed_data.polos, 1, "UF") = Str(<<"S","P">>)
    /\ Len(view.municipios_enhanced.rows) = 2
    /\ Cell(view.municipios_enhanced, 1, "MUNICIPIO_IBGE") = Str(<<"A">>)
    /\ Cell(view.municipios_enhanced, 1, "UF") = Str(<<"R","J">>)
    /\ Cell(view.municipios_enhanced, 1, "TEM_POLO") = BoolCell(TRUE)
    /\ Cell(view.municipios_enhanced, 2, "MUNICIPIO_IBGE") = Str(<<"B">>)
    /\ Cell(view.municipios_enhanced, 2, "TEM_POLO") = BoolCell(FALSE)

(***************************************************************************)
(* The number of rows of the joined student table (SpecMerge).             *)
(***************************************************************************)
\* C28: merge_alunos_municipios returns exactly one row per student row, in the same
\* order, for every municipality table, also when several municipality rows share
\* the same (MUNICIPIO_IBGE, UF): no student is duplicated by the join.
C28_OneRowPerStudent ==
    pc = "processed" =>
        LET S == Students
        IN /\ Len(processed_data.alunos.rows) = Len(S.rows)
           /\ \A i \in DOMAIN S.rows :
                 SubSeq(processed_data.alunos.rows[i], 1, Len(S.rows[i])) = S.rows[i]

(***************************************************************************)
(* The column names of the loaded table (SpecLoader).                      *)
(***************************************************************************)
\* C29: for every header row the table built by load_sheet_data has pairwise distinct
\* column names: no suffixed or generated name collides with another header.
C29_DistinctColumns ==
    pc = "returned" =>
        \A i, j \in DOMAIN returned.columns :
            i # j => returned.columns[i] # returned.columns[j]

(***************************************************************************)
(* SpecCategorize: the coverage category given by the geographic page and  *)
(* the covered count of the coverage page, for one campus in city A and    *)
(* municipalities whose name and distance vary.                            *)
(***************************************************************************)
CategorizeDistances ==
    {NaN, Int2Num(0), Int2Num(50), Num(501, 10), Int2Num(100), Num(1001, 10)}

CategorizeMunicipios ==
    {[columns |-> <<"MUNICIPIO_IBGE", "UF", "DISTANCIA_KM", "TOTAL_ALUNOS">>, rows |-> r] :
        r \in SeqsUpTo({<<Str(nome), Str(<<"S","P">>), d, Int2Num(5)>> :
                           nome \in {<<"A">>, <<"B">>}, d \in CategorizeDistances},
                       MaxMergeRows)}

InitCategorize ==
    /\ IdleAux
    /\ pc = "processed"
    /\ data = NoData
    /\ \E m \in CategorizeMunicipios :
          processed_data = [polos |-> OnePolo(<<"A">>), municipios |-> m, alunos |-> EmptyDF]
    /\ df_clean = NoClean
    /\ df = EmptyDF
    /\ metrics = ZeroMetrics
    /\ view = NoView

NextCategorize == GeographicPage \/ CoveragePage

SpecCategorize == InitCategorize /\ [][NextCategorize]_vars

\* calculate_coverage_metrics counts municipality i as covered
CountedCovered(i) ==
    calculate_coverage_metrics(processed_data.polos,
        [processed_data.municipios EXCEPT !.rows = <<processed_data.municipios.rows[i]>>]
    ).municipios_cobertos = Int2Num(1)

\* C30: _categorize_coverage_type gives 'Com Polo' to a municipality with a campus
\* whatever its distance, otherwise 'Sem Dados' for a missing distance, 'Cobertura
\* Proxima' up to 50, 'Cobertura Estendida' above 50 and up to 100, 'Fora da Cobertura'
\* above 100; without a campus and with a positive distance the category is one of
\* the two covered ones exactly when calculate_coverage_metrics counts the municipality.
C30_CoverageCategory ==
    pc = "geographic" =>
        \A i \in DOMAIN view.municipios_enhanced.rows :
            LET tem  == Cell(view.municipios_enhanced, i, "TEM_POLO") = BoolCell(TRUE)
                d    == Cell(view.municipios_enhanced, i, "DISTANCIA_KM")
                tipo == Cell(view.municipios_enhanced, i, "TIPO_COBERTURA")
            IN /\ tipo = (IF tem THEN Str(<<"Com Polo">>)
                          ELSE IF d.k = "nan" THEN Str(<<"Sem Dados">>)
                          ELSE IF d.p * 1 <= 50 * d.q THEN Str(<<"Cobertura Proxima">>)
                          ELSE IF d.p * 1 <= 100 * d.q THEN Str(<<"Cobertura Estendida">>)
                          ELSE Str(<<"Fora da Cobertura">>))
               /\ (~tem /\ d.k = "num" /\ d.p > 0) =>
                     (tipo \in {Str(<<"Cobertura Proxima">>), Str(<<"Cobertura Estendida">>)}
                        <=> CountedCovered(i))

C30_Witness ==
    /\ pc = "geographic"
    /\ Len(view.municipios_enhanced.rows) = 2
    /\ Cell(view.municipios_enhanced, 1, "TEM_POLO") = BoolCell(TRUE)
    /\ Cell(view.municipios_enhanced, 1, "DISTANCIA_KM") = NaN
    /\ Cell(view.municipios_enhanced, 1, "TIPO_COBERTURA") = Str(<<"Com Polo">>)
    /\ Cell(view.municipios_enhanced, 2, "TEM_POLO") = BoolCell(FALSE)
    /\ Cell(view.municipios_enhanced, 2, "DISTANCIA_KM") = Num(501, 10)
    /\ Cell(view.municipios_enhanced, 2, "TIPO_COBERTURA") = Str(<<"Cobertura Estendida">>)

====
